---- MODULE Spec2Model ----
(***************************************************************************)
(* A model of the DMARC report pipeline of manage-mail-dkim:               *)
(*   - IMAPDKIMReader.parse_dmarc_xml      (imap_dkim_reader.py)           *)
(*   - IMAPDKIMReader.extract_archive      (imap_dkim_reader.py)           *)
(*   - IMAPDKIMReader.process_dmarc_files  (imap_dkim_reader.py)           *)
(*   - IMAPDKIMReader.save_attachments_by_date                             *)
(*   - IMAPDKIMReader.move_dmarc_emails / move_email                       *)
(*   - the dashboard queries and get_xml_file (dashboard.py)               *)
(* Every part has a specification of its own over the shared variables;    *)
(* the variables of the other parts stay at their initial values.          *)
(***************************************************************************)
EXTENDS Integers, Sequences, FiniteSets, TLC

VARIABLES
    \* ---- parse_dmarc_xml ----
    pc,        \* position of the parse call
    result,    \* the report dictionary being built (result in the code)
    pending,   \* record elements of the document still to be decoded
    last,      \* the record element decoded last
    exc,       \* the exception caught by the handler of parse_dmarc_xml, or None
    \* ---- the output tree: <base>/<date bucket>/<file> ----
    fs,        \* bucket -> file name -> file (bytes and modification time)
    clock,     \* the time of the file system
    call,      \* extract_archive: the arguments of the last call
    ret,       \* extract_archive: the list the last call returned
    \* ---- process_dmarc_files ----
    q,         \* run -> the state of that call of process_dmarc_files
    \* ---- save_attachments_by_date ----
    store,     \* the output tree of the saves: path -> bytes written
    wall,      \* the wall clock, in seconds of the day
    sv,        \* the state of the call of save_attachments_by_date
    \* ---- get_xml_file ----
    site,      \* the files and links the dashboard's host holds
    req,       \* the file_path of the last request
    resp,      \* the response to it
    \* ---- move_dmarc_emails ----
    source,    \* the messages of the source folder, by sequence number
    target,    \* the messages of the target folder
    mv,        \* the state of the call of move_dmarc_emails
    \* ---- extract_archives_in_directory ----
    xa,        \* the state of the call of extract_archives_in_directory
    \* ---- has_dmarc ----
    mail,      \* the message given to has_dmarc
    verdict,   \* <<the value has_dmarc returned for it>>, <<>> before
    \* ---- the aggregation endpoints of the dashboard ----
    reps,      \* summary['reports'] as process_dmarc_files returned it
    today,     \* datetime.now().date(), as a day number
    out        \* the JSON document of the last response

parseVars == <<pc, result, pending, last, exc>>
treeVars == <<fs, clock>>
extractVars == <<call, ret>>
batchVars == <<q>>
saveVars == <<store, wall, sv>>
webVars == <<site, req, resp>>
moveVars == <<source, target, mv>>
sweepVars == <<xa>>
classVars == <<mail, verdict>>
dashVars == <<reps, today, out>>
vars == <<pc, result, pending, last, exc, fs, clock, call, ret, q,
          store, wall, sv, site, req, resp, source, target, mv,
          xa, mail, verdict, reps, today, out>>

(***************************************************************************)
(* Bounds of the model.                                                    *)
(***************************************************************************)
\* record elements in one document
MaxRecords == 2
\* ticks of the file system's clock
MaxClock == 2
\* files of one date bucket before a run
MaxFiles == 3
MaxSharedFiles == 2
MaxWall == 1
MaxEmails == 2
MaxRuns == 2
MaxMessages == 3

(***************************************************************************)
(* Element texts.  An element that is missing from the document is Absent, *)
(* an element without text (.text is None) is NoText; every other text is  *)
(* a string.  int() is defined on the numerals only.                       *)
(***************************************************************************)
None == "None"
Absent == "<absent>"
NoText == ""

Numerals == {"0", "3", "50", "100", "200"}

\* Python's int(text) on a numeral
IntOf(t) ==
    CASE t = "0" -> 0
      [] t = "3" -> 3
      [] t = "50" -> 50
      [] t = "100" -> 100
      [] t = "200" -> 200

\* the exception int(text) raises, or None
IntError(t) ==
    IF t = NoText THEN "TypeError"
    ELSE IF t \in Numerals THEN None
    ELSE "ValueError"

(***************************************************************************)
(* parse_dmarc_xml: the initial result dictionary.  An empty dictionary    *)
(* ({}) is a record with present = FALSE.                                  *)
(***************************************************************************)
EmptyMetadata ==
    [present |-> FALSE, report_id |-> "Unknown",
     date_range_begin |-> 0, date_range_end |-> 0]

EmptyPolicy == [present |-> FALSE, domain |-> "Unknown", pct |-> 100]

ZeroSummary ==
    [total_records |-> 0,
     spf_pass |-> 0, spf_fail |-> 0,
     dkim_pass |-> 0, dkim_fail |-> 0,
     dmarc_pass |-> 0, dmarc_fail |-> 0,
     disposition_pass |-> 0, disposition_fail |-> 0]

NewResult ==
    [report_metadata |-> EmptyMetadata,
     policy_published |-> EmptyPolicy,
     records |-> <<>>,
     summary |-> ZeroSummary,
     error |-> None]

(***************************************************************************)
(* The documents parse_dmarc_xml is given, element by element.             *)
(***************************************************************************)
\* ET.parse(xml_file_path): the file is read, is missing, or is not XML
OpenOutcomes == {"ok", "FileNotFoundError", "ParseError"}

DateTexts == {Absent, NoText, "100", "abc"}
EndTexts == {Absent, NoText, "200", "abc"}

\* the report_metadata element: missing, or with its children
MetadataInputs ==
    {[present |-> FALSE, report_id |-> Absent, begin |-> Absent, end |-> Absent]}
    \cup [present : {TRUE}, report_id : {"r1"},
          begin : DateTexts, end : EndTexts]

\* the policy_published element: missing, or with its children
PolicyInputs ==
    {[present |-> FALSE, domain |-> Absent, pct |-> Absent]}
    \cup [present : {TRUE}, domain : {"a.com"},
          pct : {Absent, NoText, "50", "abc"}]

CountTexts == {Absent, NoText, "3", "abc"}
DispositionTexts == {Absent, "none", "quarantine"}
ResultTexts == {Absent, "pass", "fail"}

\* a record element: without a row, or with the row's children
NoRowRecord ==
    [row |-> FALSE, count |-> Absent, disposition |-> Absent,
     dkim |-> Absent, spf |-> Absent]

RecordInputs ==
    {NoRowRecord}
    \cup [row : {TRUE}, count : CountTexts, disposition : DispositionTexts,
          dkim : ResultTexts, spf : ResultTexts]

(***************************************************************************)
(* Decoding of report_metadata and policy_published.                       *)
(***************************************************************************)
\* int(x.text) if x is not None and x.text else 0
GuardedIntError(t) == IF t \in {Absent, NoText} THEN None ELSE IntError(t)

GuardedInt(t, default) == IF t \in {Absent, NoText} THEN default ELSE IntOf(t)

TextOr(t, default) == IF t = Absent THEN default ELSE t

MetadataError(m) ==
    IF ~m.present THEN None
    ELSE IF GuardedIntError(m.begin) # None THEN GuardedIntError(m.begin)
    ELSE GuardedIntError(m.end)

DecodeMetadata(m) ==
    IF ~m.present THEN EmptyMetadata
    ELSE [present |-> TRUE,
          report_id |-> TextOr(m.report_id, "Unknown"),
          date_range_begin |-> GuardedInt(m.begin, 0),
          date_range_end |-> GuardedInt(m.end, 0)]

PolicyError(p) == IF ~p.present THEN None ELSE GuardedIntError(p.pct)

DecodePolicy(p) ==
    IF ~p.present THEN EmptyPolicy
    ELSE [present |-> TRUE,
          domain |-> TextOr(p.domain, "Unknown"),
          pct |-> GuardedInt(p.pct, 100)]

(***************************************************************************)
(* Decoding of one record element and its tallies.                         *)
(***************************************************************************)
\* int(count.text) if count is not None else 0
CountError(r) ==
    IF ~r.row \/ r.count = Absent THEN None ELSE IntError(r.count)

CountValue(r) == IF r.count = Absent THEN 0 ELSE IntOf(r.count)

\* record_data: the row dictionary, or a record without one
RecordData(r) ==
    IF ~r.row
    THEN [row |-> FALSE, count |-> 0, disposition |-> "none",
          dkim_result |-> "none", spf_result |-> "none"]
    ELSE [row |-> TRUE,
          count |-> CountValue(r),
          disposition |-> TextOr(r.disposition, "none"),
          dkim_result |-> TextOr(r.dkim, "none"),
          spf_result |-> TextOr(r.spf, "none")]

\* a tally that counts records instead of messages
TallySpf_PerRecord(s, r, count_value) ==
    IF r.spf = Absent THEN s
    ELSE IF r.spf = "pass"
    THEN [s EXCEPT !.spf_pass = @ + 1]
    ELSE [s EXCEPT !.spf_fail = @ + 1]

TallySpf(s, r, count_value) ==
    IF r.spf = Absent THEN s
    ELSE IF r.spf = "pass"
    THEN [s EXCEPT !.spf_pass = @ + count_value]
    ELSE [s EXCEPT !.spf_fail = @ + count_value]

TallyDkim(s, r, count_value) ==
    IF r.dkim = Absent THEN s
    ELSE IF r.dkim = "pass"
    THEN [s EXCEPT !.dkim_pass = @ + count_value]
    ELSE [s EXCEPT !.dkim_fail = @ + count_value]

TallyDisposition(s, r, count_value) ==
    IF r.disposition = Absent THEN s
    ELSE IF r.disposition = "none"
    THEN [s EXCEPT !.disposition_pass = @ + count_value]
    ELSE [s EXCEPT !.disposition_fail = @ + count_value]

\* the spf/dkim results decide before the disposition does
TallyDmarc_ResultsFirst(s, r, count_value) ==
    IF (r.spf # Absent /\ r.spf = "pass") \/ (r.dkim # Absent /\ r.dkim = "pass")
    THEN [s EXCEPT !.dmarc_pass = @ + count_value]
    ELSE IF r.disposition # Absent /\ r.disposition = "none"
         THEN [s EXCEPT !.dmarc_pass = @ + count_value]
         ELSE [s EXCEPT !.dmarc_fail = @ + count_value]

TallyDmarc(s, r, count_value) ==
    IF r.disposition # Absent
    THEN IF r.disposition = "none"
         THEN [s EXCEPT !.dmarc_pass = @ + count_value]
         ELSE [s EXCEPT !.dmarc_fail = @ + count_value]
    ELSE IF (r.spf # Absent /\ r.spf = "pass") \/ (r.dkim # Absent /\ r.dkim = "pass")
         THEN [s EXCEPT !.dmarc_pass = @ + count_value]
         ELSE [s EXCEPT !.dmarc_fail = @ + count_value]

\* the summary after the record element r
TallyRecord(s, r) ==
    IF ~r.row THEN s
    ELSE TallyDmarc(
            TallyDisposition(
                TallyDkim(TallySpf(s, r, CountValue(r)), r, CountValue(r)),
                r, CountValue(r)),
            r, CountValue(r))

\* a handler for ValueError alone
Caught_ValueErrorOnly(e) == e = "ValueError"

\* except Exception as e: the exceptions the handler catches
Caught(e) == TRUE

(***************************************************************************)
(* parse_dmarc_xml, step by step.                                          *)
(***************************************************************************)
ParseInit ==
    /\ pc = "open"
    /\ result = NewResult
    /\ pending = 0
    /\ last = NoRowRecord
    /\ exc = None

\* an exception e leaves the try block
Raise(e) ==
    /\ exc' = e
    /\ pc' = IF Caught(e) THEN "except" ELSE "raised"
    /\ UNCHANGED <<result, pending, last>>

\* tree = ET.parse(xml_file_path); root = tree.getroot()
ParseOpen ==
    /\ UNCHANGED <<treeVars, extractVars, batchVars, saveVars, webVars, moveVars, sweepVars, classVars, dashVars>>
    /\ pc = "open"
    /\ \E o \in OpenOutcomes :
        IF o = "ok"
        THEN pc' = "metadata" /\ UNCHANGED <<result, pending, last, exc>>
        ELSE Raise(o)

ParseMetadata ==
    /\ UNCHANGED <<treeVars, extractVars, batchVars, saveVars, webVars, moveVars, sweepVars, classVars, dashVars>>
    /\ pc = "metadata"
    /\ \E m \in MetadataInputs :
        IF MetadataError(m) # None
        THEN Raise(MetadataError(m))
        ELSE /\ result' = [result EXCEPT !.report_metadata = DecodeMetadata(m)]
             /\ pc' = "policy"
             /\ UNCHANGED <<pending, last, exc>>

\* policy_published, then records = root.findall(record) and total_records
ParsePolicy ==
    /\ UNCHANGED <<treeVars, extractVars, batchVars, saveVars, webVars, moveVars, sweepVars, classVars, dashVars>>
    /\ pc = "policy"
    /\ \E p \in PolicyInputs :
        IF PolicyError(p) # None
        THEN Raise(PolicyError(p))
        ELSE \E n \in 0..MaxRecords :
             /\ result' = [result EXCEPT !.policy_published = DecodePolicy(p),
                                         !.summary.total_records = n]
             /\ pending' = n
             /\ pc' = "records"
             /\ UNCHANGED <<last, exc>>

\* for record in records: the body of the loop, for the next record element
ParseRecord ==
    /\ UNCHANGED <<treeVars, extractVars, batchVars, saveVars, webVars, moveVars, sweepVars, classVars, dashVars>>
    /\ pc = "records"
    /\ pending > 0
    /\ \E r \in RecordInputs :
        IF CountError(r) # None
        THEN Raise(CountError(r))
        ELSE /\ result' = [result EXCEPT
                             !.summary = TallyRecord(@, r),
                             !.records = Append(@, RecordData(r))]
             /\ last' = r
             /\ pending' = pending - 1
             /\ UNCHANGED <<pc, exc>>

\* except Exception as e: result['error'] = str(e)
ParseExcept ==
    /\ UNCHANGED <<treeVars, extractVars, batchVars, saveVars, webVars, moveVars, sweepVars, classVars, dashVars>>
    /\ pc = "except"
    /\ result' = [result EXCEPT !.error = exc]
    /\ pc' = "returned"
    /\ UNCHANGED <<pending, last, exc>>

\* return result
ParseReturn ==
    /\ UNCHANGED <<treeVars, extractVars, batchVars, saveVars, webVars, moveVars, sweepVars, classVars, dashVars>>
    /\ pc = "records"
    /\ pending = 0
    /\ pc' = "returned"
    /\ UNCHANGED <<result, pending, last, exc>>

(***************************************************************************)
(* Properties of parse_dmarc_xml.                                          *)
(***************************************************************************)
\* a step of ParseRecord that decoded a record element (now last')
Tallied == Len(result'.records) = Len(result.records) + 1

\* the count of the record decoded by the step, as the report holds it
TalliedCount == result'.records[Len(result'.records)].count

\* what the step added to the counter f of the summary
Added(f) == result'.summary[f] - result.summary[f]

\* C1: for every tallied record the dmarc tally follows the disposition
\* first: with a disposition element the count goes to dmarc_pass when its
\* text is "none" and to dmarc_fail otherwise, whatever spf and dkim say;
\* only without one it goes to dmarc_pass when spf or dkim is "pass" and to
\* dmarc_fail otherwise.
C1_DmarcFollowsDisposition ==
    [][(Tallied /\ last'.row) =>
        IF last'.disposition # Absent
        THEN IF last'.disposition = "none"
             THEN Added("dmarc_pass") = TalliedCount /\ Added("dmarc_fail") = 0
             ELSE Added("dmarc_pass") = 0 /\ Added("dmarc_fail") = TalliedCount
        ELSE IF last'.spf = "pass" \/ last'.dkim = "pass"
             THEN Added("dmarc_pass") = TalliedCount /\ Added("dmarc_fail") = 0
             ELSE Added("dmarc_pass") = 0 /\ Added("dmarc_fail") = TalliedCount
      ]_vars

\* C1 witness: disposition "quarantine" with spf "pass" and count 3 was
\* tallied as 3 failures.
C1_Witness ==
    /\ Len(result.records) = 1
    /\ last.row /\ last.disposition = "quarantine" /\ last.spf = "pass"
    /\ last.count = "3"
    /\ result.summary.dmarc_fail = 3 /\ result.summary.dmarc_pass = 0

\* the step added the count to exactly one of the two counters
AddedToOne(p, f) ==
    /\ Added(p) + Added(f) = TalliedCount
    /\ Added(p) \in {0, TalliedCount}
    /\ Added(f) \in {0, TalliedCount}

AddedToNone(p, f) == Added(p) = 0 /\ Added(f) = 0

\* C2: every pass/fail tally grows by the record's count, never by 1, and a
\* record without the spf, dkim or disposition element changes neither
\* counter of that mechanism.
C2_TalliesGrowByCount ==
    [][Tallied =>
        /\ IF last'.row /\ last'.spf # Absent
           THEN AddedToOne("spf_pass", "spf_fail")
           ELSE AddedToNone("spf_pass", "spf_fail")
        /\ IF last'.row /\ last'.dkim # Absent
           THEN AddedToOne("dkim_pass", "dkim_fail")
           ELSE AddedToNone("dkim_pass", "dkim_fail")
        /\ IF last'.row /\ last'.disposition # Absent
           THEN AddedToOne("disposition_pass", "disposition_fail")
           ELSE AddedToNone("disposition_pass", "disposition_fail")
        /\ IF last'.row
           THEN AddedToOne("dmarc_pass", "dmarc_fail")
           ELSE AddedToNone("dmarc_pass", "dmarc_fail")
      ]_vars

\* C2 witness: a record of count 3 without an spf element and with dkim
\* "pass" left both spf counters at 0 and added 3 to dkim_pass.
C2_Witness ==
    /\ Len(result.records) = 1
    /\ last.row /\ last.spf = Absent /\ last.dkim = "pass" /\ last.count = "3"
    /\ result.summary.spf_pass = 0 /\ result.summary.spf_fail = 0
    /\ result.summary.dkim_pass = 3

\* C4: parse_dmarc_xml returns a report for every input and never raises;
\* a fault leaves the records and tallies decoded before it in the report
\* and sets error; without a fault error stays null.
C4_ParseNeverRaises ==
    /\ [](pc # "raised")
    /\ [](pc = "returned" => (result.error # None <=> exc # None))
    /\ [][exc' # exc => result' = result]_vars
    /\ [][pc = "except" =>
            /\ result'.error # None
            /\ result'.records = result.records
            /\ result'.summary = result.summary
            /\ result'.report_metadata = result.report_metadata
            /\ result'.policy_published = result.policy_published]_vars

\* C4 witness: the second record element had a non-numeric count; the
\* report returned holds the first record, its tallies and the error.
C4_Witness ==
    /\ pc = "returned"
    /\ exc = "ValueError" /\ result.error = "ValueError"
    /\ result.summary.total_records = 2
    /\ Len(result.records) = 1
    /\ result.summary.spf_pass = 3

\* the sum of the counts of the records decoded so far
RECURSIVE CountSum(_)
CountSum(records) ==
    IF records = <<>> THEN 0
    ELSE Head(records).count + CountSum(Tail(records))

SpfTallied(res) == res.summary.spf_pass + res.summary.spf_fail

SpfComplete(res) == SpfTallied(res) = CountSum(res.records)

\* the record decoded by the step has an spf result element
CarriesSpf == last'.row /\ last'.spf # Absent

\* C17 as stated: spf_pass + spf_fail never exceeds the sum of the counts
\* of the records, and the two are equal exactly when every record carries
\* an spf result element (no record is decoded with a negative count).
C17_SpfTallyBounded ==
    /\ [](SpfTallied(result) <= CountSum(result.records))
    /\ [][Tallied =>
            (SpfComplete(result') <=> (SpfComplete(result) /\ CarriesSpf))
         ]_vars

\* C17, amended: spf_pass + spf_fail never exceeds the sum of the counts of
\* the records, and the two are equal exactly when every record with a
\* positive count carries an spf result element.
C17_SpfTallyBoundedByPositiveCounts ==
    /\ [](SpfTallied(result) <= CountSum(result.records))
    /\ [][Tallied =>
            (SpfComplete(result')
                <=> (SpfComplete(result) /\ (CarriesSpf \/ TalliedCount = 0)))
         ]_vars

\* C17 witness: after a record of count 3 with an spf result, a record
\* with a row but neither a count nor an spf result was decoded, and the
\* spf tallies still add up to the sum of the counts.
C17_Witness ==
    /\ Len(result.records) = 2
    /\ result.records[1].count = 3
    /\ last.row /\ last.spf = Absent /\ last.count = Absent
    /\ SpfTallied(result) = 3
    /\ CountSum(result.records) = 3

(***************************************************************************)
(* parse_dmarc_xml as a function of a whole document: the same decoding,   *)
(* folded over the record elements.                                        *)
(***************************************************************************)
RECURSIVE ParseRecords(_, _)
ParseRecords(res, rs) ==
    IF rs = <<>> THEN res
    ELSE IF CountError(Head(rs)) # None
    THEN [res EXCEPT !.error = CountError(Head(rs))]
    ELSE ParseRecords(
            [res EXCEPT !.summary = TallyRecord(@, Head(rs)),
                        !.records = Append(@, RecordData(Head(rs)))],
            Tail(rs))

parse_dmarc_xml(doc) ==
    IF doc.open # "ok"
    THEN [NewResult EXCEPT !.error = doc.open]
    ELSE IF MetadataError(doc.metadata) # None
    THEN [NewResult EXCEPT !.error = MetadataError(doc.metadata)]
    ELSE IF PolicyError(doc.policy) # None
    THEN [NewResult EXCEPT !.report_metadata = DecodeMetadata(doc.metadata),
                           !.error = PolicyError(doc.policy)]
    ELSE ParseRecords(
            [NewResult EXCEPT !.report_metadata = DecodeMetadata(doc.metadata),
                              !.policy_published = DecodePolicy(doc.policy),
                              !.summary.total_records = Len(doc.records)],
            doc.records)

(***************************************************************************)
(* The output tree.  A file name is the sequence of its dot-separated      *)
(* parts ("r.xml.gz" is <<"r", "xml", "gz">>, the hidden ".h.gz" is        *)
(* <<"", "h", "gz">>), so that suffix and stem are computed as pathlib     *)
(* computes them.  The bytes of a file are the XML text of a document, the *)
(* gzip stream of one, a zip archive, or bytes that are none of these.     *)
(***************************************************************************)
Buckets == <<"2024-01-01", "2024-01-02">>
BucketSet == {Buckets[i] : i \in 1..Len(Buckets)}

RXmlGz == <<"r", "xml", "gz">>
RXml == <<"r", "xml">>
SGz == <<"s", "gz">>
SXml == <<"s", "xml">>
AZip == <<"a", "zip">>
MXml == <<"m", "xml">>
TXmlGz == <<"t", "xml", "gz">>
TXml == <<"t", "xml">>
HiddenGz == <<"", "h", "gz">>
HiddenXml == <<"", "h", "xml">>
NoteTxt == <<"n", "txt">>

Names == {RXmlGz, RXml, SGz, SXml, AZip, MXml, TXmlGz, TXml,
          HiddenGz, HiddenXml, NoteTxt}

XmlText(d) == [t |-> "doc", d |-> d]
GzipOf(d) == [t |-> "gz", d |-> d]
ZipFile(z) == [t |-> "zip", d |-> z]
Junk == [t |-> "junk", d |-> ""]
NoBytes == [t |-> "empty", d |-> ""]

NoFile == [exists |-> FALSE, data |-> NoBytes, mtime |-> 0]
FileOf(bytes, time) == [exists |-> TRUE, data |-> bytes, mtime |-> time]

Row(count, disposition, dkim, spf) ==
    [row |-> TRUE, count |-> count, disposition |-> disposition,
     dkim |-> dkim, spf |-> spf]

\* the documents of the tree, by name
Document(d) ==
    CASE d = "good1" ->
            [open |-> "ok",
             metadata |-> [present |-> TRUE, report_id |-> "r1",
                           begin |-> "100", end |-> "200"],
             policy |-> [present |-> TRUE, domain |-> "a.com", pct |-> Absent],
             records |-> <<Row("3", "none", "pass", "pass")>>]
      [] d = "good2" ->
            [open |-> "ok",
             metadata |-> [present |-> TRUE, report_id |-> "r2",
                           begin |-> "100", end |-> "100"],
             policy |-> [present |-> TRUE, domain |-> "b.com", pct |-> "50"],
             records |-> <<Row("3", "quarantine", "fail", "pass"),
                           Row(Absent, Absent, "pass", Absent)>>]
      [] d = "faulty" ->
            [open |-> "ok",
             metadata |-> [present |-> TRUE, report_id |-> "r3",
                           begin |-> "100", end |-> "200"],
             policy |-> [present |-> TRUE, domain |-> "a.com", pct |-> Absent],
             records |-> <<Row("3", "none", "pass", "pass"),
                           Row("abc", "none", "pass", "pass")>>]
      [] OTHER ->
            [open |-> "ParseError",
             metadata |-> [present |-> FALSE, report_id |-> Absent,
                           begin |-> Absent, end |-> Absent],
             policy |-> [present |-> FALSE, domain |-> Absent, pct |-> Absent],
             records |-> <<>>]

\* what ET.parse reads from a file: only the XML text of a document parses
DocumentOf(file) ==
    IF ~file.exists THEN [Document("") EXCEPT !.open = "FileNotFoundError"]
    ELSE IF file.data.t = "doc" THEN Document(file.data.d)
    ELSE Document("")

\* a zip archive's members, in archive order: directory, file name, bytes
Member(dir, file, data) == [dir |-> dir, file |-> file, data |-> data]

ZipMembers(z) ==
    CASE z = "z1" -> <<Member("", MXml, XmlText("good2"))>>
      [] z = "z2" -> <<Member("sub", TXmlGz, GzipOf("good2")),
                       Member("", NoteTxt, Junk),
                       Member("", MXml, XmlText("good1"))>>
      [] z = "z3" -> <<Member("", TXmlGz, Junk)>>
      [] z = "z4" -> <<Member("sub", MXml, XmlText("good1")),
                       Member("", MXml, XmlText("good2"))>>
      [] z = "z5" -> <<Member("sub", TXmlGz, GzipOf("good1")),
                       Member("", TXmlGz, GzipOf("good2"))>>
      [] z = "z6" -> <<Member("sub", TXmlGz, Junk),
                       Member("", TXmlGz, GzipOf("good2"))>>
      [] OTHER -> <<>>

\* Path.suffix.lower(), Path.stem
Suffix(name) == IF Len(name) < 2 THEN "" ELSE name[Len(name)]
Stem(name) == IF Len(name) < 2 THEN name ELSE SubSeq(name, 1, Len(name) - 1)
\* name.startswith('.')
IsHidden(name) == name[1] = ""
\* str.endswith('.xml') of a name or of a stem
EndsWithXml(name) == Len(name) >= 2 /\ name[Len(name)] = "xml"

(***************************************************************************)
(* extract_archive(file_path, output_dir) with output_dir the directory of *)
(* the file, as both callers pass it.  dir is the directory (file name ->  *)
(* file), now the time of the call; the value is the directory after the   *)
(* call and the list returned.                                             *)
(***************************************************************************)
\* the name of the document a .gz decodes to
GzDestination(name) ==
    IF EndsWithXml(Stem(name)) THEN Stem(name) ELSE Stem(name) \o <<"xml">>

\* with open(extracted_path, 'wb'): the file is created, or cut to no bytes
OpenForWrite(dir, name, now) == [dir EXCEPT ![name] = FileOf(NoBytes, now)]

\* the bytes gzip.open(file_path).read() returns (gzip streams only)
Gunzip(bytes) == XmlText(bytes.d)

\* a rewrite of the destination whether it exists or not
ExtractGz_Always(dir, name, now) ==
    IF dir[name].data.t # "gz"
    THEN [dir |-> OpenForWrite(dir, GzDestination(name), now), files |-> <<>>]
    ELSE [dir |-> [dir EXCEPT ![GzDestination(name)] =
                        FileOf(Gunzip(dir[name].data), now)],
          files |-> <<GzDestination(name)>>]

\* the .gz branch
ExtractGz(dir, name, now) ==
    IF dir[GzDestination(name)].exists
    THEN [dir |-> dir, files |-> <<GzDestination(name)>>]
    ELSE IF dir[name].data.t # "gz"
    THEN \* read() raises after the destination was opened for writing
         [dir |-> OpenForWrite(dir, GzDestination(name), now), files |-> <<>>]
    ELSE [dir |-> [dir EXCEPT ![GzDestination(name)] =
                        FileOf(Gunzip(dir[name].data), now)],
          files |-> <<GzDestination(name)>>]

\* the .zip branch: the members from the i-th on, files the list so far
RECURSIVE ExtractMembers(_, _, _, _, _)
ExtractMembers(dir, members, i, files, now) ==
    IF i > Len(members) THEN [dir |-> dir, files |-> files]
    ELSE LET m == members[i] IN
         IF Suffix(m.file) \notin {"xml", "gz"}
         THEN ExtractMembers(dir, members, i + 1, files, now)
         ELSE LET written == [dir EXCEPT ![m.file] = FileOf(m.data, now)] IN
              IF Suffix(m.file) = "gz"
              THEN LET inner == ExtractGz(written, m.file, now) IN
                   \* os.remove(extracted_path) after the recursive call
                   ExtractMembers([inner.dir EXCEPT ![m.file] = NoFile],
                                  members, i + 1,
                                  Append(files, m.file) \o inner.files, now)
              ELSE ExtractMembers(written, members, i + 1,
                                  Append(files, m.file), now)

ExtractZip(dir, name, now) ==
    IF dir[name].data.t # "zip"
    THEN [dir |-> dir, files |-> <<>>]
    ELSE ExtractMembers(dir, ZipMembers(dir[name].data.d), 1, <<>>, now)

extract_archive(dir, name, now) ==
    IF ~dir[name].exists THEN [dir |-> dir, files |-> <<>>]
    ELSE IF Suffix(name) = "zip" THEN ExtractZip(dir, name, now)
    ELSE IF Suffix(name) = "gz" THEN ExtractGz(dir, name, now)
    ELSE \* .xml: shutil.copy2 of a file onto itself raises SameFileError
         [dir |-> dir, files |-> <<>>]

(***************************************************************************)
(* The trees a run starts from: what saved attachments and earlier runs    *)
(* leave in the date buckets.                                              *)
(***************************************************************************)
EmptyDir == [n \in Names |-> NoFile]

Choices(name) ==
    CASE name = RXmlGz -> {GzipOf("good1"), Junk}
      [] name = RXml -> {XmlText("good1"), XmlText("faulty"), NoBytes}
      [] name = SGz -> {GzipOf("good2"), GzipOf("")}
      [] name = AZip -> {ZipFile("z1"), ZipFile("z2"), ZipFile("z3"), Junk}
      [] name = HiddenGz -> {GzipOf("good1")}
      [] name = NoteTxt -> {Junk}
      [] OTHER -> {}

\* a file of that name written at time 0, or none
Options(name) == {NoFile} \cup {FileOf(b, 0) : b \in Choices(name)}

FirstBucketDirs ==
    {[n \in Names |->
        CASE n = RXmlGz -> f1 [] n = RXml -> f2 [] n = SGz -> f3
          [] n = AZip -> f4 [] n = HiddenGz -> f5 [] n = NoteTxt -> f6
          [] OTHER -> NoFile] :
        f1 \in Options(RXmlGz), f2 \in Options(RXml), f3 \in Options(SGz),
        f4 \in Options(AZip), f5 \in Options(HiddenGz), f6 \in Options(NoteTxt)}

LaterBucketDirs ==
    {[n \in Names |-> IF n = RXml THEN f ELSE NoFile] : f \in Options(RXml)}

Trees ==
    {[b \in BucketSet |-> IF b = Buckets[1] THEN d1 ELSE d2] :
        d1 \in FirstBucketDirs, d2 \in LaterBucketDirs}

FilesOf(dir) == {n \in Names : dir[n].exists}

TreeInit ==
    /\ fs \in Trees
    /\ \A b \in BucketSet : Cardinality(FilesOf(fs[b])) <= MaxFiles
    /\ clock = 1

ExtractIdle ==
    /\ call = [bucket |-> Buckets[1], name |-> RXml]
    /\ ret = <<>>

\* time passes
Tick ==
    /\ clock < MaxClock
    /\ clock' = clock + 1
    /\ UNCHANGED <<parseVars, fs, extractVars, batchVars, saveVars, webVars, moveVars, sweepVars, classVars, dashVars>>

\* a call of extract_archive on a file of the tree
Extract ==
    /\ \E b \in BucketSet, n \in Names :
        /\ fs[b][n].exists
        /\ call' = [bucket |-> b, name |-> n]
        /\ ret' = extract_archive(fs[b], n, clock).files
        /\ fs' = [fs EXCEPT ![b] = extract_archive(fs[b], n, clock).dir]
    /\ UNCHANGED <<parseVars, clock, batchVars, saveVars, webVars, moveVars, sweepVars, classVars, dashVars>>

(***************************************************************************)
(* process_dmarc_files(base_dir, extract), one call per run.  The steps of *)
(* a run: the listing of a bucket, the dispatch of one file (with its      *)
(* extraction), the write that ends the decompression of a .gz, and the    *)
(* parse of one extracted document.                                        *)
(***************************************************************************)
NewSummary ==
    [total_files |-> 0, processed |-> 0, failed |-> 0,
     xml_files |-> <<>>, reports |-> <<>>]

IdleRun ==
    [pc |-> "idle", extract |-> TRUE, bucket |-> 1, todo |-> {},
     file |-> RXml, xml_files |-> <<>>, summary |-> NewSummary]

\* the extract argument: every caller passes extract=True
ExtractArguments == {TRUE}

BatchIdle == q = [p \in {1} |-> IdleRun]

\* the entry of summary['reports'] for the document name of bucket b
ReportEntry(b, name, parsed) ==
    [file |-> <<b, name>>,
     date |-> b,
     report_id |-> parsed.report_metadata.report_id,
     domain |-> parsed.policy_published.domain,
     date_range_begin |-> parsed.report_metadata.date_range_begin,
     date_range_end |-> parsed.report_metadata.date_range_end,
     summary |-> parsed.summary]

\* a summary that lists a document whatever its parse returned
Account_ErrorIgnored(summary, b, name, parsed) ==
    [summary EXCEPT !.processed = @ + 1,
                    !.xml_files = Append(@, <<b, name>>),
                    !.reports = Append(@, ReportEntry(b, name, parsed))]

\* the summary after the parse of the document name of bucket b
Account(summary, b, name, parsed) ==
    IF parsed.error = None
    THEN [summary EXCEPT !.processed = @ + 1,
                         !.xml_files = Append(@, <<b, name>>),
                         !.reports = Append(@, ReportEntry(b, name, parsed))]
    ELSE [summary EXCEPT !.failed = @ + 1]

\* the call begins: an empty summary, the first bucket
Begin(p) ==
    /\ q' = [q EXCEPT ![p] =
                [IdleRun EXCEPT !.pc = "bucket",
                                !.extract = CHOOSE e \in ExtractArguments : TRUE]]
    /\ UNCHANGED <<parseVars, treeVars, extractVars, saveVars, webVars, moveVars, sweepVars, classVars, dashVars>>

QStart(p) == q[p].pc = "idle" /\ Begin(p)

\* the next call of the same caller, after the last one returned
QAgain(p) == q[p].pc = "done" /\ Begin(p)

\* for date_dir in sorted(base_path.iterdir()): the listing of the bucket
QBucket(p) ==
    /\ q[p].pc = "bucket"
    /\ IF q[p].bucket > Len(Buckets)
       THEN q' = [q EXCEPT ![p].pc = "done"]
       ELSE q' = [q EXCEPT
                    ![p].todo = FilesOf(fs[Buckets[q[p].bucket]]),
                    ![p].pc = "files"]
    /\ UNCHANGED <<parseVars, treeVars, extractVars, saveVars, webVars, moveVars, sweepVars, classVars, dashVars>>

\* for file_path in date_dir.iterdir(): one file, in the order of the listing
QFile(p) ==
    /\ q[p].pc = "files"
    /\ UNCHANGED <<parseVars, clock, extractVars, saveVars, webVars, moveVars, sweepVars, classVars, dashVars>>
    /\ LET b == Buckets[q[p].bucket] IN
       IF q[p].todo = {}
       THEN /\ q' = [q EXCEPT ![p].bucket = @ + 1, ![p].pc = "bucket"]
            /\ UNCHANGED fs
       ELSE \E n \in q[p].todo :
            LET rest == [q[p] EXCEPT !.todo = @ \ {n}, !.file = n]
                counted == [rest EXCEPT !.summary.total_files = @ + 1]
            IN
            IF ~fs[b][n].exists
            THEN \* file_path.is_file() is false
                 q' = [q EXCEPT ![p] = rest] /\ UNCHANGED fs
            ELSE IF IsHidden(n)
            THEN q' = [q EXCEPT ![p] = counted] /\ UNCHANGED fs
            ELSE IF q[p].extract /\ Suffix(n) = "zip"
            THEN /\ fs' = [fs EXCEPT ![b] = extract_archive(fs[b], n, clock).dir]
                 /\ q' = [q EXCEPT ![p] =
                            [counted EXCEPT
                                !.xml_files = extract_archive(fs[b], n, clock).files,
                                !.pc = "parse"]]
            ELSE IF q[p].extract /\ Suffix(n) = "gz"
            THEN IF fs[b][GzDestination(n)].exists
                 THEN /\ q' = [q EXCEPT ![p] =
                                [counted EXCEPT
                                    !.xml_files = extract_archive(fs[b], n, clock).files,
                                    !.pc = "parse"]]
                      /\ UNCHANGED fs
                 ELSE \* open(extracted_path, 'wb'), the bytes not yet written
                      /\ fs' = [fs EXCEPT ![b] = OpenForWrite(fs[b], GzDestination(n), clock)]
                      /\ q' = [q EXCEPT ![p] = [counted EXCEPT !.pc = "gzwrite"]]
            ELSE IF Suffix(n) = "xml"
            THEN /\ q' = [q EXCEPT ![p] =
                            [counted EXCEPT !.xml_files = <<n>>, !.pc = "parse"]]
                 /\ UNCHANGED fs
            ELSE q' = [q EXCEPT ![p] = counted] /\ UNCHANGED fs

\* out_file.write(gz_file.read()) and the return of extract_archive
QGzWrite(p) ==
    /\ q[p].pc = "gzwrite"
    /\ UNCHANGED <<parseVars, clock, extractVars, saveVars, webVars, moveVars, sweepVars, classVars, dashVars>>
    /\ LET b == Buckets[q[p].bucket]
           n == q[p].file
       IN
       IF fs[b][n].exists /\ fs[b][n].data.t = "gz"
       THEN /\ fs' = [fs EXCEPT ![b][GzDestination(n)] =
                        FileOf(Gunzip(fs[b][n].data), clock)]
            /\ q' = [q EXCEPT ![p].xml_files = <<GzDestination(n)>>,
                              ![p].pc = "parse"]
       ELSE \* read() raises: extract_archive returns the empty list
            /\ q' = [q EXCEPT ![p].xml_files = <<>>, ![p].pc = "parse"]
            /\ UNCHANGED fs

\* for xml_file in xml_files: one path of the list
QParse(p) ==
    /\ q[p].pc = "parse"
    /\ UNCHANGED <<parseVars, treeVars, extractVars, saveVars, webVars, moveVars, sweepVars, classVars, dashVars>>
    /\ LET b == Buckets[q[p].bucket] IN
       IF q[p].xml_files = <<>>
       THEN q' = [q EXCEPT ![p].pc = "files"]
       ELSE LET x == Head(q[p].xml_files) IN
            IF Suffix(x) # "xml" \/ ~fs[b][x].exists
            THEN q' = [q EXCEPT ![p].xml_files = Tail(@)]
            ELSE q' = [q EXCEPT
                        ![p].xml_files = Tail(@),
                        ![p].summary =
                            Account(@, b, x, parse_dmarc_xml(DocumentOf(fs[b][x])))]

(***************************************************************************)
(* extract_archives_in_directory(base_dir, skip_existing), one file of a   *)
(* bucket per step.                                                        *)
(***************************************************************************)
NewSweepStats ==
    [total_files |-> 0, extracted |-> 0, skipped |-> 0, failed |-> 0,
     extracted_files |-> <<>>]

\* the skip_existing argument: the caller passes skip_existing=True
SkipArguments == {TRUE}

IdleSweep ==
    [pc |-> "idle", skip_existing |-> TRUE, bucket |-> 1, todo |-> {},
     file |-> RXml, start |-> [b \in BucketSet |-> EmptyDir],
     stats |-> NewSweepStats]

SweepIdle == xa = IdleSweep

\* a test that takes a document as old as the archive for a newer one
AlreadyExtracted_NotStrict(dir, n) ==
    IF Suffix(n) = "gz"
    THEN /\ Stem(n) \in Names
         /\ dir[Stem(n)].exists
         /\ Suffix(Stem(n)) = "xml"
         /\ dir[Stem(n)].mtime >= dir[n].mtime
    ELSE \E x \in Names :
            /\ dir[x].exists
            /\ Suffix(x) = "xml"
            /\ dir[x].mtime >= dir[n].mtime

\* the test that an archive was extracted before: a newer document
AlreadyExtracted(dir, n) ==
    IF Suffix(n) = "gz"
    THEN /\ Stem(n) \in Names
         /\ dir[Stem(n)].exists
         /\ Suffix(Stem(n)) = "xml"
         /\ dir[Stem(n)].mtime > dir[n].mtime
    ELSE \E x \in Names :
            /\ dir[x].exists
            /\ Suffix(x) = "xml"
            /\ dir[x].mtime > dir[n].mtime

\* the counters after extract_archive returned files
SweepCount(stats, files) ==
    IF files # <<>>
    THEN [stats EXCEPT !.extracted = @ + 1,
                       !.extracted_files = @ \o files]
    ELSE [stats EXCEPT !.failed = @ + 1]

SweepBegin ==
    /\ xa' = [IdleSweep EXCEPT
                !.pc = "bucket",
                !.skip_existing = CHOOSE e \in SkipArguments : TRUE,
                !.start = fs]
    /\ UNCHANGED <<parseVars, treeVars, extractVars, batchVars, saveVars, webVars, moveVars, classVars, dashVars>>

XStart == xa.pc = "idle" /\ SweepBegin

\* the next run, after the last one returned
XAgain == xa.pc = "done" /\ SweepBegin

\* for date_dir in sorted(base_path.iterdir()): the listing of the bucket
XBucket ==
    /\ xa.pc = "bucket"
    /\ IF xa.bucket > Len(Buckets)
       THEN xa' = [xa EXCEPT !.pc = "done"]
       ELSE xa' = [xa EXCEPT !.todo = FilesOf(fs[Buckets[xa.bucket]]),
                             !.pc = "files"]
    /\ UNCHANGED <<parseVars, treeVars, extractVars, batchVars, saveVars, webVars, moveVars, classVars, dashVars>>

\* for file_path in date_dir.iterdir(): one file, in the order of the listing
XFile ==
    /\ xa.pc = "files"
    /\ UNCHANGED <<parseVars, clock, extractVars, batchVars, saveVars, webVars, moveVars, classVars, dashVars>>
    /\ LET b == Buckets[xa.bucket] IN
       IF xa.todo = {}
       THEN /\ xa' = [xa EXCEPT !.bucket = @ + 1, !.pc = "bucket"]
            /\ UNCHANGED fs
       ELSE \E n \in xa.todo :
            LET rest == [xa EXCEPT !.todo = @ \ {n}, !.file = n]
                counted == [rest EXCEPT !.stats.total_files = @ + 1]
                done == extract_archive(fs[b], n, clock)
            IN
            IF \/ ~fs[b][n].exists
               \/ IsHidden(n)
               \/ Suffix(n) \notin {"zip", "gz"}
            THEN xa' = rest /\ UNCHANGED fs
            ELSE IF xa.skip_existing /\ AlreadyExtracted(fs[b], n)
            THEN /\ xa' = [counted EXCEPT !.stats.skipped = @ + 1]
                 /\ UNCHANGED fs
            ELSE /\ xa' = [counted EXCEPT
                             !.stats = SweepCount(@, done.files)]
                 /\ fs' = [fs EXCEPT ![b] = done.dir]

(***************************************************************************)
(* Properties of extract_archive.                                          *)
(***************************************************************************)
\* a step that is a call of extract_archive (now call')
Called == clock' = clock

\* C6: extract_archive on a .gz whose destination document exists returns
\* exactly the path of that document and changes no file, neither bytes nor
\* modification time; a .gz call that returned a path returned the
\* destination, which exists, so the next call on it returns the same path.
C6_ExistingDestinationKept ==
    /\ [][(/\ Called
           /\ Suffix(call'.name) = "gz"
           /\ fs[call'.bucket][GzDestination(call'.name)].exists)
          => (fs' = fs /\ ret' = <<GzDestination(call'.name)>>)]_vars
    /\ []((Suffix(call.name) = "gz" /\ ret # <<>>)
          => (/\ ret = <<GzDestination(call.name)>>
              /\ fs[call.bucket][GzDestination(call.name)].exists))

\* C6 witness: r.xml.gz was extracted at time 2 while r.xml, written at
\* time 0 with other bytes than the archive holds, was there: the call
\* returned r.xml and r.xml is as it was.
C6_Witness ==
    /\ call = [bucket |-> Buckets[1], name |-> RXmlGz]
    /\ ret = <<RXml>>
    /\ clock = 2
    /\ fs[Buckets[1]][RXmlGz].data = GzipOf("good1")
    /\ fs[Buckets[1]][RXml] = FileOf(XmlText("faulty"), 0)

(***************************************************************************)
(* Properties of process_dmarc_files.                                      *)
(***************************************************************************)
\* run p is about to parse the next path of its list
AtParse(p) ==
    /\ q[p].pc = "parse"
    /\ q[p].xml_files # <<>>
    /\ Suffix(Head(q[p].xml_files)) = "xml"
    /\ fs[Buckets[q[p].bucket]][Head(q[p].xml_files)].exists

\* the error of that parse
ParseErrorAt(p) ==
    parse_dmarc_xml(
        DocumentOf(fs[Buckets[q[p].bucket]][Head(q[p].xml_files)])).error

\* the step added one entry, for that path, to reports and to xml_files
Listed(p) ==
    LET old == q[p].summary
        new == q'[p].summary
        path == <<Buckets[q[p].bucket], Head(q[p].xml_files)>>
    IN /\ Len(new.reports) = Len(old.reports) + 1
       /\ SubSeq(new.reports, 1, Len(old.reports)) = old.reports
       /\ new.reports[Len(new.reports)].file = path
       /\ new.xml_files = Append(old.xml_files, path)
       /\ new.processed = old.processed + 1
       /\ new.failed = old.failed

\* the step added one to failed and nothing to reports and xml_files
Failed(p) ==
    /\ q'[p].summary.failed = q[p].summary.failed + 1
    /\ q'[p].summary.reports = q[p].summary.reports
    /\ q'[p].summary.xml_files = q[p].summary.xml_files
    /\ q'[p].summary.processed = q[p].summary.processed

\* C3: every entry of reports comes from a parse whose error is null; a
\* parse that returned an error adds exactly one to failed and no entry to
\* reports or xml_files, so that the summaries computed from reports hold
\* nothing of it.
C3_FailedParsesExcluded ==
    /\ [][\A p \in DOMAIN q :
            IF AtParse(p)
            THEN IF ParseErrorAt(p) = None THEN Listed(p) ELSE Failed(p)
            ELSE \/ q'[p].summary.reports = q[p].summary.reports
                 \/ q'[p].summary = NewSummary]_vars
    /\ [](\A p \in DOMAIN q :
            /\ Len(q[p].summary.reports) = q[p].summary.processed
            /\ Len(q[p].summary.xml_files) = q[p].summary.processed)

\* C3 witness: a run over a bucket with the faulty r.xml and a sound s.gz
\* returned one report and one failure.
C3_Witness ==
    /\ q[1].pc = "done"
    /\ fs[Buckets[1]][RXml].data = XmlText("faulty")
    /\ fs[Buckets[1]][SGz].data = GzipOf("good2")
    /\ q[1].summary.failed = 1
    /\ q[1].summary.processed = 1
    /\ Len(q[1].summary.reports) = 1
    /\ q[1].summary.reports[1].file = <<Buckets[1], SXml>>

\* C7: an aggregation query of the dashboard (process_dmarc_files through
\* process_dmarc_silently) creates, rewrites or deletes no file of the tree.
C7_QueryChangesNoFile == [][fs' = fs]_vars

\* C8: two queries running concurrently over a tree whose documents and
\* archives are all sound (a query alone counts no failure there) see no
\* partly written document: neither counts a parse failure.
C8_ConcurrentQueriesCountNoFailure ==
    \A p \in DOMAIN q : q[p].summary.failed = 0

(***************************************************************************)
(* save_attachments_by_date.  A file name is a sequence of characters, a   *)
(* payload a sequence of bytes, a path of the output tree a pair of the    *)
(* date directory and the file name.                                       *)
(***************************************************************************)
DigitChars == <<"0", "1", "2", "3", "4", "5", "6", "7", "8", "9">>

TwoDigits(n) == <<DigitChars[(n \div 10) + 1], DigitChars[(n % 10) + 1]>>

\* datetime.now().strftime('%H%M%S')
HHMMSS(t) ==
    TwoDigits((t \div 3600) % 24) \o TwoDigits((t \div 60) % 60)
        \o TwoDigits(t % 60)

RECURSIVE LStrip(_)
LStrip(s) == IF s # <<>> /\ Head(s) = " " THEN LStrip(Tail(s)) ELSE s

RECURSIVE RStrip(_)
RStrip(s) ==
    IF s # <<>> /\ s[Len(s)] = " "
    THEN RStrip(SubSeq(s, 1, Len(s) - 1))
    ELSE s

\* str.strip()
Strip(s) == RStrip(LStrip(s))

UnsafeChars == {"/", "\\", "<", ">", ":", "\"", "|", "?", "*"}

\* the two replace calls and the re.sub of sanitize_filename
Clean(s) == [i \in 1..Len(s) |-> IF s[i] \in UnsafeChars THEN "_" ELSE s[i]]

DefaultName == <<"a", "t", "t", "a", "c", "h", "m", "e", "n", "t">>

sanitize_filename(filename) ==
    IF filename = <<>> THEN DefaultName
    ELSE IF Strip(filename) = <<>> THEN DefaultName
    ELSE IF Strip(Clean(Strip(filename))) = <<>> THEN DefaultName
    ELSE Strip(Clean(Strip(filename)))

\* os.path.splitext: the extension starts at the last dot, unless only
\* dots precede it
splitext(s) ==
    LET dots == {i \in 1..Len(s) : s[i] = "."}
        d == IF dots = {} THEN 0
             ELSE CHOOSE i \in dots : \A j \in dots : j <= i
    IN IF d = 0 \/ \A j \in 1..(d - 1) : s[j] = "."
       THEN <<s, <<>>>>
       ELSE <<SubSeq(s, 1, d - 1), SubSeq(s, d, Len(s))>>

\* the attachments a message can carry
FileNames ==
    { <<"r", ".", "x", "m", "l">>,
      <<" ", "a", "/", "b">> }

Payloads == { <<"a">>, <<"a", "b">>, <<"b", "a">> }

WriteOutcomes == {"ok", "OSError"}

Attachments ==
    [filename : FileNames, payload : Payloads, write : WriteOutcomes]

AttachmentLists ==
    {<<>>} \cup {<<a>> : a \in Attachments}
        \cup {<<a, b>> : a \in Attachments, b \in Attachments}

Dates == {Buckets[1]}

NewStats ==
    [total_emails |-> 0, emails_with_attachments |-> 0,
     total_attachments |-> 0, total_saved |-> 0, total_skipped |-> 0,
     total_failed |-> 0, files |-> <<>>]

\* the dictionary returned when the folder cannot be selected
EarlyStats ==
    [total_emails |-> 0, emails_with_attachments |-> 0,
     total_attachments |-> 0, total_saved |-> 0,
     total_failed |-> 0, files |-> <<>>]

\* a save that skips whatever file has the name, whatever its size
SaveOne_SizeBlind(st, att, date, now) ==
    LET clean == sanitize_filename(att.filename)
        file_path == <<date, clean>>
    IN IF file_path \in DOMAIN st.store
       THEN [st EXCEPT !.stats.total_skipped = @ + 1]
       ELSE IF att.write # "ok"
       THEN [st EXCEPT !.stats.total_failed = @ + 1]
       ELSE [store |-> (file_path :> att.payload) @@ st.store,
             stats |->
                [st.stats EXCEPT
                    !.total_saved = @ + 1,
                    !.files = Append(@,
                        [filename |-> clean,
                         original_filename |-> att.filename,
                         path |-> file_path,
                         size |-> Len(att.payload),
                         date |-> date])]]

\* the body of the loop over the attachments of one message
SaveOne(st, att, date, now) ==
    LET clean == sanitize_filename(att.filename)
        path == <<date, clean>>
        exists == path \in DOMAIN st.store
    IN IF exists /\ Len(st.store[path]) = Len(att.payload)
       THEN [st EXCEPT !.stats.total_skipped = @ + 1]
       ELSE LET parts == splitext(clean)
                name == IF exists
                        THEN parts[1] \o <<"_">> \o HHMMSS(now) \o parts[2]
                        ELSE clean
                file_path == <<date, name>>
            IN IF att.write # "ok"
               THEN [st EXCEPT !.stats.total_failed = @ + 1]
               ELSE [store |-> (file_path :> att.payload) @@ st.store,
                     stats |->
                        [st.stats EXCEPT
                            !.total_saved = @ + 1,
                            !.files = Append(@,
                                [filename |-> name,
                                 original_filename |-> att.filename,
                                 path |-> file_path,
                                 size |-> Len(att.payload),
                                 date |-> date])]]

RECURSIVE SaveAll(_, _, _, _)
SaveAll(st, atts, date, now) ==
    IF atts = <<>> THEN st
    ELSE SaveAll(SaveOne(st, Head(atts), date, now), Tail(atts), date, now)

SaveIdle ==
    /\ store = <<>>
    /\ wall = 0
    /\ sv = [pc |-> "idle", ids |-> 0, stats |-> NewStats, runs |-> 0]

\* the wall clock advances
WallTick ==
    /\ wall < MaxWall
    /\ wall' = wall + 1
    /\ UNCHANGED <<store, sv>>
    /\ UNCHANGED <<parseVars, treeVars, extractVars, batchVars, webVars, moveVars, sweepVars, classVars, dashVars>>

\* the call, up to the loop: select, search, the list of ids, the counters
SaveBegin ==
    /\ sv.pc \in {"idle", "done", "raised"}
    /\ sv.runs < MaxRuns
    /\ \E outcome \in {"ok", "select failed", "search failed"},
          n \in 0..MaxEmails :
        sv' = CASE outcome = "select failed" ->
                    [pc |-> "done", ids |-> 0, stats |-> EarlyStats,
                     runs |-> sv.runs + 1]
                [] outcome = "search failed" ->
                    [pc |-> "raised", ids |-> 0, stats |-> NewStats,
                     runs |-> sv.runs + 1]
                [] OTHER ->
                    [pc |-> "loop", ids |-> n, stats |-> NewStats,
                     runs |-> sv.runs + 1]
    /\ UNCHANGED <<store, wall>>
    /\ UNCHANGED <<parseVars, treeVars, extractVars, batchVars, webVars, moveVars, sweepVars, classVars, dashVars>>

\* one message of the loop
SaveEmail ==
    /\ sv.pc = "loop"
    /\ sv.ids > 0
    /\ LET counted == [sv.stats EXCEPT !.total_emails = @ + 1] IN
       \E fetch \in {"OK", "NO", "error"} :
         CASE fetch = "NO" ->
                /\ sv' = [sv EXCEPT !.ids = @ - 1, !.stats = counted]
                /\ UNCHANGED store
           [] fetch = "error" ->
                /\ sv' = [sv EXCEPT
                            !.ids = @ - 1,
                            !.stats = [counted EXCEPT
                                          !.total_failed = @ + 1]]
                /\ UNCHANGED store
           [] OTHER ->
                \E date \in Dates, atts \in AttachmentLists :
                    LET found == IF atts = <<>> THEN counted
                                 ELSE [counted EXCEPT
                                          !.emails_with_attachments = @ + 1,
                                          !.total_attachments = @ + Len(atts)]
                        saved == SaveAll([store |-> store, stats |-> found],
                                         atts, date, wall)
                    IN /\ sv' = [sv EXCEPT !.ids = @ - 1,
                                           !.stats = saved.stats]
                       /\ store' = saved.store
    /\ UNCHANGED wall
    /\ UNCHANGED <<parseVars, treeVars, extractVars, batchVars, webVars, moveVars, sweepVars, classVars, dashVars>>

\* the loop is over: return stats
SaveReturn ==
    /\ sv.pc = "loop"
    /\ sv.ids = 0
    /\ sv' = [sv EXCEPT !.pc = "done"]
    /\ UNCHANGED <<store, wall>>
    /\ UNCHANGED <<parseVars, treeVars, extractVars, batchVars, webVars, moveVars, sweepVars, classVars, dashVars>>

\* C5: no save changes the content of a file that existed before it, also
\* when the name with the time suffix is itself taken.
C5_SavesNeverOverwrite ==
    [][\A path \in DOMAIN store :
          path \in DOMAIN store' /\ store'[path] = store[path]]_vars

\* the sanitized name of every file name
CleanName == [n \in FileNames |-> sanitize_filename(n)]

\* an attachment written without a fault whose sanitized name the bucket
\* does not hold
FreshName(a, date) ==
    /\ a.write = "ok"
    /\ <<date, CleanName[a.filename]>> \notin DOMAIN store

\* an attachment written without a fault, of the sanitized name of a
SameName(a, b) ==
    /\ b.write = "ok"
    /\ CleanName[b.filename] = CleanName[a.filename]

\* the files and counters after the save of one more attachment
Saved(st, att, date, now) == {SaveOne(st, att, date, now)}

\* the second save left the two files of the last two entries of files
BothStored(s2, a, b) ==
    LET n == Len(s2.stats.files)
        first == s2.stats.files[n - 1].path
        second == s2.stats.files[n].path
    IN /\ first # second
       /\ first \in DOMAIN s2.store
       /\ second \in DOMAIN s2.store
       /\ s2.store[first] = a.payload
       /\ s2.store[second] = b.payload

\* C18: of two attachments with one sanitized name saved into a bucket that
\* does not hold the name, the first is counted as saved; with equal sizes
\* the second is counted as skipped and nothing is written, with different
\* sizes the second is counted as saved too, under another path, and both
\* files exist afterwards, each with its own payload.
C18_SameNameSavedTwice ==
    sv.pc = "loop" =>
        \A date \in Dates, a \in Attachments :
            FreshName(a, date) =>
                \A s1 \in Saved([store |-> store, stats |-> sv.stats],
                                 a, date, wall) :
                   /\ s1.stats.total_saved = sv.stats.total_saved + 1
                   /\ s1.stats.total_skipped = sv.stats.total_skipped
                   /\ \A b \in Attachments, now \in wall..MaxWall :
                        SameName(a, b) =>
                            \A s2 \in Saved(s1, b, date, now) :
                                IF Len(a.payload) = Len(b.payload)
                                THEN /\ s2.stats.total_skipped
                                          = s1.stats.total_skipped + 1
                                     /\ s2.stats.total_saved
                                          = s1.stats.total_saved
                                     /\ s2.store = s1.store
                                ELSE /\ s2.stats.total_saved
                                          = s1.stats.total_saved + 1
                                     /\ s2.stats.total_skipped
                                          = s1.stats.total_skipped
                                     /\ BothStored(s2, a, b)

\* C18 witness: two attachments named r.xml of sizes 1 and 2 were saved in
\* one run; both are counted, under two paths, and both files hold their
\* payloads.
C18_Witness ==
    /\ sv.pc = "loop"
    /\ sv.stats.total_saved = 2
    /\ sv.stats.total_skipped = 0
    /\ Len(sv.stats.files) = 2
    /\ sv.stats.files[1].original_filename = sv.stats.files[2].original_filename
    /\ sv.stats.files[1].size # sv.stats.files[2].size
    /\ sv.stats.files[1].path # sv.stats.files[2].path
    /\ \A i \in 1..2 :
          /\ sv.stats.files[i].path \in DOMAIN store
          /\ Len(store[sv.stats.files[i].path]) = sv.stats.files[i].size
    /\ Cardinality(DOMAIN store) = 2

\* the six running counters of the batch save
RunningCounters ==
    {"total_emails", "emails_with_attachments", "total_attachments",
     "total_saved", "total_skipped", "total_failed"}

\* C19: whatever path save_attachments_by_date returns by, the result
\* holds the six running counters, and each of them is 0 when no message
\* was processed.
C19_EveryReturnHoldsTheCounters ==
    sv.pc = "done" =>
        /\ RunningCounters \subseteq DOMAIN sv.stats
        /\ sv.stats.total_emails = 0 =>
              \A k \in RunningCounters : sv.stats[k] = 0

(***************************************************************************)
(* get_xml_file of the dashboard.  The request and str(path) are sequences *)
(* of characters; a path is the sequence of its components.                *)
(***************************************************************************)
\* the components of a string, as pathlib splits it
RECURSIVE SplitPath(_, _, _)
SplitPath(s, cur, acc) ==
    IF s = <<>> THEN (IF cur = <<>> THEN acc ELSE Append(acc, cur))
    ELSE IF Head(s) = "/"
         THEN SplitPath(Tail(s), <<>>,
                        IF cur = <<>> THEN acc ELSE Append(acc, cur))
         ELSE SplitPath(Tail(s), Append(cur, Head(s)), acc)

Dot(part) == part = <<".">>

Parts(s) == SelectSeq(SplitPath(s, <<>>, <<>>), LAMBDA part : ~Dot(part))

\* str() of an absolute path
RECURSIVE Joined(_)
Joined(parts) ==
    IF parts = <<>> THEN <<>>
    ELSE <<"/">> \o Head(parts) \o Joined(Tail(parts))

PathStr(parts) == IF parts = <<>> THEN <<"/">> ELSE Joined(parts)

\* '..' in file_path
HasDotDot(s) == \E i \in 1..(Len(s) - 1) : s[i] = "." /\ s[i + 1] = "."

\* str.startswith
StartsWith(s, prefix) ==
    Len(prefix) <= Len(s) /\ SubSeq(s, 1, Len(prefix)) = prefix

\* Path.resolve(): the components are walked from the root, a link is
\* replaced by its target
RECURSIVE Resolve(_, _, _)
Resolve(links, rest, acc) ==
    IF rest = <<>> THEN acc
    ELSE IF Head(rest) = <<".", ".">>
         THEN Resolve(links, Tail(rest),
                      IF acc = <<>> THEN acc
                      ELSE SubSeq(acc, 1, Len(acc) - 1))
         ELSE LET next == Append(acc, Head(rest))
              IN Resolve(links, Tail(rest),
                         IF next \in DOMAIN links THEN links[next] ELSE next)

LowerChar(c) ==
    CASE c = "X" -> "x"
      [] c = "M" -> "m"
      [] c = "L" -> "l"
      [] c = "R" -> "r"
      [] OTHER -> c

\* str.lower()
Lower(s) == [i \in 1..Len(s) |-> LowerChar(s[i])]

\* PurePath.suffix of a final component
PathSuffix(name) ==
    LET dots == {i \in 1..Len(name) : name[i] = "."}
        d == IF dots = {} THEN 0
             ELSE CHOOSE i \in dots : \A j \in dots : j <= i
    IN IF 1 < d /\ d < Len(name) THEN SubSeq(name, d, Len(name)) ELSE <<>>

DotXml == <<".", "x", "m", "l">>

\* the working directory of the dashboard and its DMARC_DIR
Cwd == << <<"w">> >>
DMARC_DIR == <<"d">>

BaseDir == Cwd \o Parts(DMARC_DIR)
SiblingDir == Cwd \o << <<"d", "2">> >>
OtherDir == Cwd \o << <<"e">> >>
BucketDir == BaseDir \o << <<"k">> >>
LinkPath == BaseDir \o << <<"l">> >>

ReportName == <<"r", ".", "x", "m", "l">>
UpperName == <<"R", ".", "X", "M", "L">>
TextName == <<"n", ".", "t", "x", "t">>

\* the files the host can hold, with their content
HostFiles ==
    { <<BucketDir \o <<ReportName>>, "inside">>,
      <<BucketDir \o <<UpperName>>, "upper">>,
      <<BucketDir \o <<TextName>>, "text">>,
      <<SiblingDir \o <<ReportName>>, "sibling">>,
      <<OtherDir \o <<ReportName>>, "other">> }

FilesOfHost(chosen) ==
    [path \in {f[1] : f \in chosen} |->
        (CHOOSE f \in chosen : f[1] = path)[2]]

LinkTargets == {BucketDir, SiblingDir, OtherDir}

Sites ==
    {[links |-> <<>>, files |-> FilesOfHost(chosen)] :
        chosen \in SUBSET HostFiles}
    \cup {[links |-> (LinkPath :> t), files |-> FilesOfHost(chosen)] :
            t \in LinkTargets, chosen \in SUBSET HostFiles}

\* the file_path of a request
Requests ==
    { <<"k", "/", "r", ".", "x", "m", "l">>,
      <<"k", "/", "R", ".", "X", "M", "L">>,
      <<"k", "/", "n", ".", "t", "x", "t">>,
      <<"l", "/", "r", ".", "x", "m", "l">>,
      <<"k", "/", ".", ".", "/", ".", ".", "/", "d", "2", "/",
        "r", ".", "x", "m", "l">>,
      <<"/", "w", "/", "e", "/", "r", ".", "x", "m", "l">>,
      <<"k">> }

\* Path.exists(): a file, or a directory that holds one
Exists(st, resolved) ==
    \E f \in DOMAIN st.files : StartsWith(f, resolved)

Answer(status, body) == [status |-> status, body |-> body]

get_xml_file(st, file_path) ==
    IF HasDotDot(file_path) \/ (file_path # <<>> /\ Head(file_path) = "/")
    THEN Answer(400, None)
    ELSE LET full_path == Parts(DMARC_DIR) \o Parts(file_path)
             full_path_resolved == Resolve(st.links, Cwd \o full_path, <<>>)
             dmarc_dir_resolved ==
                 Resolve(st.links, Cwd \o Parts(DMARC_DIR), <<>>)
         IN IF ~StartsWith(PathStr(full_path_resolved),
                           PathStr(dmarc_dir_resolved))
            THEN Answer(403, None)
            ELSE IF ~Exists(st, full_path_resolved)
            THEN Answer(404, None)
            ELSE IF Lower(PathSuffix(full_path[Len(full_path)])) # DotXml
            THEN Answer(400, None)
            ELSE IF full_path_resolved \notin DOMAIN st.files
            THEN Answer(500, None)
            ELSE Answer(200, st.files[full_path_resolved])

WebIdle ==
    /\ site = [links |-> <<>>, files |-> <<>>]
    /\ req = <<>>
    /\ resp = Answer(0, None)

\* one request of /api/xml/<path:file_path>
GetXml ==
    /\ \E file_path \in Requests :
        /\ req' = file_path
        /\ resp' = get_xml_file(site, file_path)
    /\ UNCHANGED site
    /\ UNCHANGED <<parseVars, treeVars, extractVars, batchVars, saveVars, moveVars, sweepVars, classVars, dashVars>>

\* the request names a component ".."
Traverses(file_path) ==
    \E i \in 1..Len(SplitPath(file_path, <<>>, <<>>)) :
        SplitPath(file_path, <<>>, <<>>)[i] = <<".", ".">>

\* the location the request resolves to, links followed
Location(file_path) ==
    IF file_path # <<>> /\ Head(file_path) = "/"
    THEN Resolve(site.links, Parts(file_path), <<>>)
    ELSE Resolve(site.links, BaseDir \o Parts(file_path), <<>>)

\* component by component, under the base directory
InsideBase(parts) ==
    /\ Len(parts) >= Len(BaseDir)
    /\ SubSeq(parts, 1, Len(BaseDir)) = BaseDir

\* C9: content is returned only for a request without a traversal segment
\* that resolves, links followed, to a location inside the base directory
\* and ends in .xml; a location in a sibling directory whose name starts
\* with the base directory's name is rejected.
C9_ContentOnlyFromInsideBase ==
    resp.status = 200 =>
        /\ ~Traverses(req)
        /\ InsideBase(Location(req))
        /\ Lower(PathSuffix(Parts(req)[Len(Parts(req))])) = DotXml

(***************************************************************************)
(* move_dmarc_emails and move_email.  A folder is the sequence of its      *)
(* messages; the ids of a search are sequence numbers of that moment.      *)
(***************************************************************************)
\* the texts of the imaplib.IMAP4.error a command can raise
ErrorTexts == {"invalid messageset", "too many invalid", "socket error"}

\* 'invalid messageset' in str(e).lower() or 'too many invalid' in ...
IsProtocolError(text) == text \in {"invalid messageset", "too many invalid"}

FetchOutcomes == {"OK", "NO"} \cup ErrorTexts

\* the first command of move_email that does not answer OK, and its answer
MoveCommands == {"select", "copy", "store", "expunge"}

MoveOutcomes ==
    {[at |-> "none", how |-> "OK"]}
        \cup [at : MoveCommands, how : {"NO"} \cup ErrorTexts]

Message(uid, report) == [uid |-> uid, report |-> report, deleted |-> FALSE]

Folders ==
    UNION {[1..n -> BOOLEAN] : n \in 0..MaxMessages}

FolderOf(reports) ==
    [i \in 1..Len(reports) |-> Message(i, reports[i])]

\* EXPUNGE: the messages flagged \Deleted leave the folder
Expunged(folder) == SelectSeq(folder, LAMBDA m : ~m.deleted)

\* STORE +FLAGS \Deleted
Flagged(folder, id) == [folder EXCEPT ![id].deleted = TRUE]

\* has_dmarc(msg)
has_dmarc(m) == m.report

ZeroStats ==
    [total_checked |-> 0, dmarc_found |-> 0, moved |-> 0, failed |-> 0,
     emails |-> <<>>]

\* a move that deletes from the source folder whatever the copy answered
move_email_DeleteFirst(src, tgt, id, outcome) ==
    LET raised == IF outcome.how \in ErrorTexts THEN outcome.how ELSE None
    IN CASE outcome.at = "select" ->
                [moved |-> FALSE, source |-> src, target |-> tgt,
                 raised |-> raised]
         [] outcome.at = "copy" ->
                [moved |-> FALSE, source |-> Expunged(Flagged(src, id)),
                 target |-> tgt, raised |-> raised]
         [] outcome.at = "store" ->
                [moved |-> FALSE, source |-> src,
                 target |-> Append(tgt, src[id]), raised |-> raised]
         [] outcome.at = "expunge" ->
                [moved |-> outcome.how = "NO", source |-> Flagged(src, id),
                 target |-> Append(tgt, src[id]), raised |-> raised]
         [] OTHER ->
                [moved |-> TRUE, source |-> Expunged(Flagged(src, id)),
                 target |-> Append(tgt, src[id]), raised |-> None]

\* move_email: the value returned, the folders after it, and the text of
\* the error the mail store raised in it, or None
move_email(src, tgt, id, outcome) ==
    LET raised == IF outcome.how \in ErrorTexts THEN outcome.how ELSE None
    IN CASE outcome.at = "select" ->
                [moved |-> FALSE, source |-> src, target |-> tgt,
                 raised |-> raised]
         [] outcome.at = "copy" ->
                [moved |-> FALSE, source |-> src, target |-> tgt,
                 raised |-> raised]
         [] outcome.at = "store" ->
                [moved |-> FALSE, source |-> src,
                 target |-> Append(tgt, src[id]), raised |-> raised]
         [] outcome.at = "expunge" ->
                [moved |-> outcome.how = "NO", source |-> Flagged(src, id),
                 target |-> Append(tgt, src[id]), raised |-> raised]
         [] OTHER ->
                [moved |-> TRUE, source |-> Expunged(Flagged(src, id)),
                 target |-> Append(tgt, src[id]), raised |-> None]

MoveIdle ==
    /\ source = <<>>
    /\ target = <<>>
    /\ mv = [pc |-> "idle", ids |-> <<>>, stats |-> ZeroStats,
             dry_run |-> FALSE, signalled |-> FALSE]

\* the call, up to the loop: select_folder, search, the list of ids
MoveCall(dry_run, limit, status) ==
    /\ mv.pc = "idle"
    /\  LET found == [i \in 1..Len(source) |-> i]
            email_ids == IF limit # 0 /\ limit < Len(found)
                         THEN SubSeq(found, 1, limit)
                         ELSE found
        IN mv' = IF status # "OK"
                 THEN [mv EXCEPT !.pc = "raised", !.dry_run = dry_run]
                 ELSE [mv EXCEPT !.pc = "loop", !.ids = email_ids,
                                 !.stats = ZeroStats, !.dry_run = dry_run]
    /\ UNCHANGED <<source, target>>
    /\ UNCHANGED <<parseVars, treeVars, extractVars, batchVars, saveVars, webVars, sweepVars, classVars, dashVars>>

\* the arguments of the call and the answer of the search
MoveBegin ==
    \E dry_run \in BOOLEAN, limit \in 0..MaxMessages, status \in {"OK", "NO"} :
        MoveCall(dry_run, limit, status)

\* one iteration of the loop over email_ids, with the answer of the mail
\* store to the fetch and to the commands of move_email
MoveStep(fetch, outcome) ==
    /\ mv.pc = "loop"
    /\ mv.ids # <<>>
    /\  LET email_id == Head(mv.ids)
            counted == [mv.stats EXCEPT !.total_checked = @ + 1]
            next == [mv EXCEPT !.ids = Tail(@)]
        IN /\ fetch = "OK" => email_id \in DOMAIN source
           /\ CASE fetch = "NO" ->
                    /\ mv' = [next EXCEPT !.stats = counted]
                    /\ UNCHANGED <<source, target>>
                [] fetch \in ErrorTexts /\ IsProtocolError(fetch) ->
                    /\ mv' = [mv EXCEPT !.pc = "done", !.stats = counted,
                                        !.signalled = TRUE]
                    /\ UNCHANGED <<source, target>>
                [] fetch \in ErrorTexts /\ ~IsProtocolError(fetch) ->
                    /\ mv' = [next EXCEPT
                                !.stats = [counted EXCEPT !.failed = @ + 1]]
                    /\ UNCHANGED <<source, target>>
                [] OTHER ->
                    LET msg == source[email_id]
                        found == [counted EXCEPT
                                    !.dmarc_found = @ + 1,
                                    !.emails = Append(@,
                                        [id |-> email_id,
                                         subject |-> msg.uid])]
                        done == move_email(source, target, email_id, outcome)
                    IN IF ~has_dmarc(msg)
                       THEN /\ mv' = [next EXCEPT !.stats = counted]
                            /\ UNCHANGED <<source, target>>
                       ELSE IF mv.dry_run
                       THEN /\ mv' = [next EXCEPT
                                        !.stats = [found EXCEPT
                                                     !.moved = @ + 1]]
                            /\ UNCHANGED <<source, target>>
                       ELSE /\ mv' = [next EXCEPT
                                        !.stats =
                                            IF done.moved
                                            THEN [found EXCEPT
                                                    !.moved = @ + 1]
                                            ELSE [found EXCEPT
                                                    !.failed = @ + 1],
                                        !.signalled =
                                            \/ @
                                            \/ /\ done.raised # None
                                               /\ IsProtocolError(done.raised)]
                            /\ source' = done.source
                            /\ target' = done.target
    /\ UNCHANGED <<parseVars, treeVars, extractVars, batchVars, saveVars, webVars, sweepVars, classVars, dashVars>>

MoveIteration ==
    \E fetch \in FetchOutcomes, outcome \in MoveOutcomes :
        MoveStep(fetch, outcome)

\* the list of ids is exhausted: return stats
MoveReturn ==
    /\ mv.pc = "loop"
    /\ mv.ids = <<>>
    /\ mv' = [mv EXCEPT !.pc = "done"]
    /\ UNCHANGED <<source, target>>
    /\ UNCHANGED <<parseVars, treeVars, extractVars, batchVars, saveVars, webVars, sweepVars, classVars, dashVars>>

\* C10: once the mail store has signalled the protocol-level error in the
\* scan loop, no further message is fetched or moved, and the statistics
\* accumulated up to that point are the ones returned.
C10_NoCommandAfterSignal ==
    [][mv.signalled =>
          /\ mv'.stats = mv.stats
          /\ source' = source
          /\ target' = target]_vars

\* C12: every path of the list extract_archive returned names a decoded
\* .xml document that exists in the output directory; the path of an
\* intermediate .gz member is never part of the list.
C12_ResultNamesDocuments ==
    \A i \in DOMAIN ret :
        /\ EndsWithXml(ret[i])
        /\ fs[call.bucket][ret[i]].exists

\* no element occurs twice in the sequence
NoRepeat(seq) == \A i, j \in DOMAIN seq : seq[i] = seq[j] => i = j

\* C20: when process_dmarc_files has returned, every path occurs at most
\* once in xml_files and at most once as the file of a report, also for a
\* bucket that holds an archive x.xml.gz next to the x.xml decoded from it.
C20_NoDocumentReportedTwice ==
    \A p \in DOMAIN q :
        q[p].pc = "done" =>
            /\ NoRepeat(q[p].summary.xml_files)
            /\ NoRepeat([i \in DOMAIN q[p].summary.reports |->
                            q[p].summary.reports[i].file])

(***************************************************************************)
(* Properties of extract_archives_in_directory.                            *)
(***************************************************************************)
\* the archives a pass has to examine in a tree
Candidates(tree) ==
    {<<b, n>> \in BucketSet \X Names :
        /\ tree[b][n].exists
        /\ ~IsHidden(n)
        /\ Suffix(n) \in {"zip", "gz"}}

\* the step examines the archive xa'.file and does not skip it
Examined ==
    /\ xa.pc = "files"
    /\ xa'.todo # xa.todo
    /\ <<Buckets[xa.bucket], xa'.file>> \in Candidates(fs)
    /\ xa'.stats.skipped = xa.stats.skipped

\* the list extract_archive returns names no decoded document that exists
NothingDecoded ==
    LET done == extract_archive(fs[Buckets[xa.bucket]], xa'.file, clock)
    IN ~\E i \in DOMAIN done.files :
            /\ EndsWithXml(done.files[i])
            /\ done.dir[done.files[i]].exists
            /\ done.dir[done.files[i]].data.t = "doc"

\* C11: an archive whose extraction raises or produces nothing is counted
\* as failed; the pass goes on, and on return every candidate archive of
\* the tree is counted in exactly one of extracted, skipped and failed.
C11_FailuresCountedAndIsolated ==
    /\ [][Examined /\ NothingDecoded =>
            /\ xa'.stats.failed = xa.stats.failed + 1
            /\ xa'.stats.extracted = xa.stats.extracted]_vars
    /\ [](xa.pc = "done" =>
            /\ xa.stats.total_files = Cardinality(Candidates(xa.start))
            /\ xa.stats.total_files =
                 xa.stats.extracted + xa.stats.skipped + xa.stats.failed)

\* the part of C11 on the isolation and the accounting alone
SweepAccounting ==
    xa.pc = "done" =>
        /\ xa.stats.total_files = Cardinality(Candidates(xa.start))
        /\ xa.stats.total_files =
             xa.stats.extracted + xa.stats.skipped + xa.stats.failed

(***************************************************************************)
(* has_dmarc: the classification of a message.  A text is the sequence of  *)
(* its lexemes (words, runs of white space, punctuation marks); a message  *)
(* holds its decoded Subject header and its parts.  A message that is not  *)
(* multipart has one part, the message itself.                             *)
(***************************************************************************)
MaxParts == 2

White == {" ", "  "}

\* str.lower() on a lexeme
LowerWord(t) ==
    CASE t = "Report" -> "report"
      [] t = "Domain" -> "domain"
      [] t = "Submitter" -> "submitter"
      [] t = "Report-ID" -> "report-id"
      [] t = "DMARC" -> "dmarc"
      [] t = "Monthly" -> "monthly"
      [] t = "Domain-based" -> "domain-based"
      [] t = "Message" -> "message"
      [] t = "Authentication" -> "authentication"
      [] t = "<Feedback" -> "<feedback"
      [] t = "A.COM" -> "a.com"
      [] t = ".ZIP" -> ".zip"
      [] OTHER -> t

LowerText(s) == [i \in 1..Len(s) |-> LowerWord(s[i])]

\* the atoms of a regular expression: a literal, \s+ or \s*, and .*
Lit(t) == [k |-> "lit", t |-> t]
Ws1 == [k |-> "ws", t |-> "+"]
Ws0 == [k |-> "ws", t |-> "*"]
AnyText == [k |-> "any", t |-> "*"]

dmarc_report_patterns ==
    << <<Lit("report"), Ws1, Lit("domain"), Ws0, Lit(":")>>,
       <<Lit("report-id"), Ws0, Lit(":")>>,
       <<Lit("submitter"), Ws0, Lit(":")>>,
       <<Lit("dmarc"), Ws1, Lit("aggregate"), Ws1, Lit("report")>>,
       <<Lit("dmarc"), Ws1, Lit("failure"), Ws1, Lit("report")>>,
       <<Lit("domain-based"), Ws1, Lit("message"), Ws1,
         Lit("authentication"), AnyText, Lit("report")>> >>

\* the pattern p matches the text s from position i on
RECURSIVE MatchAt(_, _, _)
MatchAt(p, s, i) ==
    IF p = <<>> THEN TRUE
    ELSE LET a == Head(p)
             least == IF a.t = "+" THEN 1 ELSE 0
         IN CASE a.k = "lit" ->
                    /\ i <= Len(s)
                    /\ s[i] = a.t
                    /\ MatchAt(Tail(p), s, i + 1)
              [] a.k = "ws" ->
                    \E n \in least..(Len(s) - i + 1) :
                        /\ \A j \in i..(i + n - 1) : s[j] \in White
                        /\ MatchAt(Tail(p), s, i + n)
              [] OTHER ->
                    \E n \in 0..(Len(s) - i + 1) :
                        MatchAt(Tail(p), s, i + n)

\* re.search(pattern, text)
re_search(p, s) == \E i \in 1..(Len(s) + 1) : MatchAt(p, s, i)

\* sub in text
Contains(s, sub) ==
    \E i \in 1..(Len(s) - Len(sub) + 1) :
        SubSeq(s, i, i + Len(sub) - 1) = sub

\* text.endswith(t), t one lexeme
EndsWith(s, t) == Len(s) > 0 /\ s[Len(s)] = t

\* the loop over the patterns of the subject
SubjectSays(msg) ==
    LET subject_lower == LowerText(msg.subject)
    IN \E k \in DOMAIN dmarc_report_patterns :
          /\ re_search(dmarc_report_patterns[k], subject_lower)
          /\ \/ Contains(subject_lower, <<"report", " ", "domain">>)
             \/ Contains(subject_lower, <<"report-id">>)

\* the loop over the parts that sets has_dmarc_attachment
DmarcAttachment(msg) ==
    /\ msg.multipart
    /\ \E i \in DOMAIN msg.parts :
          LET part == msg.parts[i]
              filename_lower == LowerText(part.filename)
          IN /\ part.disposition = "attachment"
             /\ part.filename # <<>>
             /\ \/ EndsWith(filename_lower, ".zip")
                \/ EndsWith(filename_lower, ".gz")
                \/ EndsWith(filename_lower, ".xml")
             /\ Contains(filename_lower, <<"!">>)
             /\ \/ EndsWith(filename_lower, ".zip")
                \/ EndsWith(filename_lower, ".gz")
                \/ Contains(filename_lower, <<".xml">>)

TextTypes == {"text/plain", "text/html", "application/xml", "text/xml"}

\* body_text: the payloads of the text parts one after the other, or the
\* payload of a message that is not multipart
RECURSIVE BodyOfParts(_)
BodyOfParts(parts) ==
    IF parts = <<>> THEN <<>>
    ELSE (IF Head(parts).ctype \in TextTypes
             THEN Head(parts).payload ELSE <<>>)
         \o BodyOfParts(Tail(parts))

body_text(msg) ==
    IF msg.multipart THEN BodyOfParts(msg.parts) ELSE msg.parts[1].payload

\* the tests on the body
BodySays(msg) ==
    LET body_lower == LowerText(body_text(msg))
        has_feedback_tag == Contains(body_lower, <<"<feedback">>)
        has_report_metadata == Contains(body_lower, <<"<report_metadata">>)
        has_policy_published == Contains(body_lower, <<"<policy_published">>)
    IN /\ body_text(msg) # <<>>
       /\ \/ has_feedback_tag /\ (has_report_metadata \/ has_policy_published)
          \/ /\ Contains(body_lower, <<"report", " ", "domain", ":">>)
             /\ Contains(body_lower, <<"report-id", ":">>)
             /\ Contains(body_lower, <<"submitter", ":">>)

\* has_dmarc(msg), all of it
HasDmarc(msg) == SubjectSays(msg) \/ BodySays(msg) \/ DmarcAttachment(msg)

\* extract_attachments(msg): the attachments of a message
IsAttached(msg, part) ==
    /\ msg.multipart => part.disposition \in {"attachment", "inline"}
    /\ part.filename # <<>>
    /\ part.payload # <<>>

extract_attachments(msg) ==
    LET kept == {i \in DOMAIN msg.parts : IsAttached(msg, msg.parts[i])}
    IN {[filename |-> msg.parts[i].filename,
         payload |-> msg.parts[i].payload] : i \in kept}

\* the messages classified
Subjects ==
    { <<"Report", " ", "Domain", ":", " ", "x", ";", " ", "Submitter", ":",
        " ", "y", ";", " ", "Report-ID", ":", " ", "z">>,
      <<"Monthly", " ", "DMARC", " ", "digest">>,
      <<"DMARC", " ", "aggregate", " ", "report">>,
      <<"Report", "  ", "Domain", ":", " ", "x">>,
      <<"Submitter", ":", " ", "y", " ", "report-id", " ", "z">>,
      <<"Domain-based", " ", "Message", " ", "Authentication", " ",
        "report-id", " ", "z", " ", "report">> }

Bodies ==
    { <<>>,
      <<"hello">>,
      <<"<Feedback", ">", "<report_metadata", ">">>,
      <<"<feedback", ">", "<record>">>,
      <<"<policy_published", ">">>,
      <<"Report", " ", "Domain", ":", " ", "x", " ", "Report-ID", ":",
        " ", "z", " ", "Submitter", ":", " ", "y">>,
      <<"report", " ", "domain", ":", " ", "x", " ", "submitter", ":",
        " ", "y">> }

AttachmentNames ==
    { <<"a.com", "!", "r", ".xml", ".gz">>,
      <<"A.COM", "!", "b.com", "!", "1", "!", "2", ".ZIP">>,
      <<"r", ".xml">> }

TextPart(body) ==
    [disposition |-> "", filename |-> <<>>, ctype |-> "text/plain",
     payload |-> body]

FilePart(disposition, name) ==
    [disposition |-> disposition, filename |-> name,
     ctype |-> "application/octet-stream", payload |-> <<"bytes">>]

MessageParts ==
    {TextPart(b) : b \in Bodies}
      \cup {FilePart(d, n) : d \in {"attachment", "inline"},
                             n \in AttachmentNames}

Mails ==
    {[multipart |-> TRUE, subject |-> s, parts |-> ps] :
        s \in Subjects,
        ps \in UNION {[1..n -> MessageParts] : n \in 0..MaxParts}}
      \cup {[multipart |-> FALSE, subject |-> s, parts |-> <<p>>] :
                s \in Subjects, p \in MessageParts}

ClassIdle == mail = <<>> /\ verdict = <<>>

ClassInit == mail \in Mails /\ verdict = <<>>

Classify ==
    /\ mail # <<>>
    /\ verdict = <<>>
    /\ verdict' = <<HasDmarc(mail)>>
    /\ UNCHANGED <<mail, parseVars, treeVars, extractVars, batchVars,
                   saveVars, webVars, moveVars, sweepVars, dashVars>>

\* the gates of the classification, over the subject, the attachments and
\* the body of the message
SubjectGate == SubjectSays(mail)

AttachmentGate ==
    \E a \in extract_attachments(mail) :
        LET name == LowerText(a.filename)
        IN /\ EndsWith(name, ".zip") \/ EndsWith(name, ".gz")
                \/ EndsWith(name, ".xml")
           /\ Contains(name, <<"!">>)

BodyGate == BodySays(mail)

\* C13: a message is classified as a report exactly when its subject
\* matches a report pattern and holds "report domain" or "report-id", or
\* one of its attachments has a name that ends in .zip, .gz or .xml and
\* holds "!", or its body holds the feedback tag with a report-metadata or
\* policy-published tag or the three markers.
C13_ReportExactlyWhenAGateHolds ==
    verdict # <<>> =>
        (verdict[1] = (SubjectGate \/ AttachmentGate \/ BodyGate))

(***************************************************************************)
(* The aggregation endpoints of the dashboard: get_summary, get_domains    *)
(* and get_trends over summary['reports'].  A percentage is held in        *)
(* hundredths (3333 is 33.33), a calendar date as the number of its day.   *)
(***************************************************************************)
MaxReports == 2

WindowDays == 7
SecondsPerDay == 86400

CounterKeys ==
    {"total_records", "spf_pass", "spf_fail", "dkim_pass", "dkim_fail",
     "dmarc_pass", "dmarc_fail", "disposition_pass", "disposition_fail"}

DomainKeys ==
    {"total_records", "spf_pass", "spf_fail", "dkim_pass", "dkim_fail",
     "dmarc_pass", "dmarc_fail"}

\* acc[key] += rep_summary.get(key, 0) for the keys given
AddSummary(acc, rep_summary, keys) ==
    [k \in DOMAIN acc |->
        IF k \in keys THEN acc[k] + rep_summary[k] ELSE acc[k]]

\* the loop over the reports that adds every summary to acc
RECURSIVE AddReports(_, _)
AddReports(acc, reports) ==
    IF reports = <<>> THEN acc
    ELSE AddReports(AddSummary(acc, Head(reports).summary, CounterKeys),
                    Tail(reports))

\* a rounding that cuts the digits after the second
Round2_Down(n, d) == (n * 100) \div d

\* round(n / d, 2) in hundredths
Round2(n, d) ==
    LET whole == (n * 100) \div d
        rest == (n * 100) % d
    IN IF 2 * rest < d THEN whole
       ELSE IF 2 * rest > d THEN whole + 1
       ELSE IF whole % 2 = 0 THEN whole ELSE whole + 1

\* round((passed / total * 100) if total > 0 else 0, 2)
Percent(passed, total) ==
    IF total > 0 THEN Round2(passed * 100, total) ELSE 0

\* the body of the response of /api/summary
get_summary(reports) ==
    LET t == AddReports([k \in CounterKeys |-> 0], reports)
        total_spf == t.spf_pass + t.spf_fail
        total_dkim == t.dkim_pass + t.dkim_fail
        total_dmarc == t.dmarc_pass + t.dmarc_fail
        total_disposition == t.disposition_pass + t.disposition_fail
    IN t @@ [spf_pass_pct |-> Percent(t.spf_pass, total_spf),
             dkim_pass_pct |-> Percent(t.dkim_pass, total_dkim),
             dmarc_pass_pct |-> Percent(t.dmarc_pass, total_dmarc),
             disposition_pass_pct |->
                 Percent(t.disposition_pass, total_disposition)]

\* domains[domain] of a domain not seen before
NewDomain(domain) ==
    [k \in DomainKeys |-> 0]
        @@ [domain |-> domain, total_reports |-> 0]

\* a grouping that opens a group for every report
AddToDomain_Fresh(domains, report) ==
    Append(domains,
           [AddSummary(NewDomain(report.domain), report.summary, DomainKeys)
               EXCEPT !.total_reports = 1])

\* domains after one report: the groups are kept in the order in which
\* their domains were first seen
AddToDomain(domains, report) ==
    LET known == \E i \in DOMAIN domains : domains[i].domain = report.domain
        groups == IF known THEN domains
                  ELSE Append(domains, NewDomain(report.domain))
    IN [i \in DOMAIN groups |->
          IF groups[i].domain = report.domain
          THEN [AddSummary(groups[i], report.summary, DomainKeys)
                    EXCEPT !.total_reports = @ + 1]
          ELSE groups[i]]

RECURSIVE GroupReports(_, _)
GroupReports(domains, reports) ==
    IF reports = <<>> THEN domains
    ELSE GroupReports(AddToDomain(domains, Head(reports)), Tail(reports))

\* the body of the response of /api/domains
get_domains(reports) == GroupReports(<<>>, reports)

\* datetime.fromtimestamp(ts).date()
DateOf(ts) == ts \div SecondsPerDay

\* a comparison of the instants instead of the calendar dates
InRange_Instants(report, date) ==
    /\ report.date_range_begin <= date * SecondsPerDay
    /\ date * SecondsPerDay <= report.date_range_end

\* report_begin.date() <= date.date() <= report_end.date()
InRange(report, date) ==
    /\ DateOf(report.date_range_begin) <= date
    /\ date <= DateOf(report.date_range_end)

\* the reports of the list whose range holds the date
RECURSIVE ReportsOfDay(_, _)
ReportsOfDay(reports, date) ==
    IF reports = <<>> THEN <<>>
    ELSE (IF InRange(Head(reports), date) THEN <<Head(reports)>> ELSE <<>>)
         \o ReportsOfDay(Tail(reports), date)

\* day_summary of one date
DaySummary(reports, date) ==
    LET t == AddReports([k \in CounterKeys |-> 0],
                        ReportsOfDay(reports, date))
    IN t @@ [date |-> date,
             spf_pass_pct |-> Percent(t.spf_pass, t.spf_pass + t.spf_fail),
             dkim_pass_pct |->
                 Percent(t.dkim_pass, t.dkim_pass + t.dkim_fail),
             dmarc_pass_pct |->
                 Percent(t.dmarc_pass, t.dmarc_pass + t.dmarc_fail)]

\* the body of the response of /api/trends: i runs from 6 down to 0
get_trends(reports, now) ==
    [trends |->
        [n \in 1..WindowDays |->
            DaySummary(reports, now - (WindowDays - n))]]

\* the reports of the batch summary
Summaries ==
    { [k \in CounterKeys |-> 0],
      [total_records |-> 2, spf_pass |-> 2, spf_fail |-> 1,
       dkim_pass |-> 3, dkim_fail |-> 0, dmarc_pass |-> 2, dmarc_fail |-> 1,
       disposition_pass |-> 2, disposition_fail |-> 1],
      [total_records |-> 1, spf_pass |-> 0, spf_fail |-> 0,
       dkim_pass |-> 0, dkim_fail |-> 1, dmarc_pass |-> 1, dmarc_fail |-> 0,
       disposition_pass |-> 1, disposition_fail |-> 0] }

DateRanges ==
    { <<9 * SecondsPerDay, 10 * SecondsPerDay - 1>>,
      <<8 * SecondsPerDay + 43200, 10 * SecondsPerDay + 1>>,
      <<1 * SecondsPerDay, 2 * SecondsPerDay>>,
      <<3 * SecondsPerDay, 5 * SecondsPerDay + 1>> }

Anchors == {10, 11}

Reports ==
    {[domain |-> d, date_range_begin |-> r[1], date_range_end |-> r[2],
      summary |-> s] :
        d \in {"a.com", "b.com"}, r \in DateRanges, s \in Summaries}

NoResponse == [kind |-> "none", body |-> <<>>]

DashIdle == reps = <<>> /\ today = 0 /\ out = NoResponse

DashInit ==
    /\ reps \in UNION {[1..n -> Reports] : n \in 0..MaxReports}
    /\ today \in Anchors
    /\ out = NoResponse

GetSummary ==
    /\ today # 0
    /\ out = NoResponse
    /\ out' = [kind |-> "summary", body |-> get_summary(reps)]
    /\ UNCHANGED <<reps, today, parseVars, treeVars, extractVars, batchVars,
                   saveVars, webVars, moveVars, sweepVars, classVars>>

GetDomains ==
    /\ today # 0
    /\ out = NoResponse
    /\ out' = [kind |-> "domains", body |-> get_domains(reps)]
    /\ UNCHANGED <<reps, today, parseVars, treeVars, extractVars, batchVars,
                   saveVars, webVars, moveVars, sweepVars, classVars>>

GetTrends ==
    /\ today # 0
    /\ out = NoResponse
    /\ out' = [kind |-> "trends", body |-> get_trends(reps, today)]
    /\ UNCHANGED <<reps, today, parseVars, treeVars, extractVars, batchVars,
                   saveVars, webVars, moveVars, sweepVars, classVars>>

(***************************************************************************)
(* Properties of the aggregation endpoints.                                *)
(***************************************************************************)
\* the sum of a counter over the reports of the batch summary chosen
RECURSIVE SumOver(_, _)
SumOver(chosen, key) ==
    IF chosen = {} THEN 0
    ELSE LET i == CHOOSE j \in chosen : TRUE
         IN reps[i].summary[key] + SumOver(chosen \ {i}, key)

Distance(a, b) == IF a >= b THEN a - b ELSE b - a

\* pct, in hundredths, is passed / (passed + failed) * 100 to two places
\* when the denominator is positive, and 0 when it is 0
IsPercentage(pct, passed, failed) ==
    IF passed + failed > 0
    THEN 2 * Distance(pct * (passed + failed), passed * 10000)
            <= passed + failed
    ELSE pct = 0

\* C14: each of the nine counters of the total is the sum of the counter
\* over the reports of the batch summary; each of the four percentages is
\* pass / (pass + fail) * 100 (to two decimal places) when pass + fail > 0
\* and 0 when pass + fail = 0, each by its own denominator.
C14_TotalsAndPercentages ==
    out.kind = "summary" =>
        LET t == out.body
        IN /\ \A k \in CounterKeys : t[k] = SumOver(DOMAIN reps, k)
           /\ IsPercentage(t.spf_pass_pct, t.spf_pass, t.spf_fail)
           /\ IsPercentage(t.dkim_pass_pct, t.dkim_pass, t.dkim_fail)
           /\ IsPercentage(t.dmarc_pass_pct, t.dmarc_pass, t.dmarc_fail)
           /\ IsPercentage(t.disposition_pass_pct, t.disposition_pass,
                           t.disposition_fail)

\* two reports are summed, the spf denominator is 0 and the others are not
C14_Witness ==
    /\ out.kind = "summary"
    /\ Len(reps) = 2
    /\ out.body.spf_pass + out.body.spf_fail = 0
    /\ out.body.spf_pass_pct = 0
    /\ out.body.dkim_pass + out.body.dkim_fail > 0
    /\ out.body.dmarc_pass_pct > 0

\* the calendar dates of the window, oldest first
WindowDate(n) == today - (WindowDays - n)

\* the reports whose range of calendar dates holds the date
Covering(date) ==
    {i \in DOMAIN reps :
        /\ reps[i].date_range_begin \div SecondsPerDay <= date
        /\ date <= reps[i].date_range_end \div SecondsPerDay}

\* C15: the trend has exactly 7 buckets, one per calendar day from 6 days
\* before the anchor to the anchor, oldest first; the counters of a bucket
\* are the sums of the whole summaries of exactly the reports whose range
\* of calendar dates, begin and end included, holds the date of the bucket.
C15_TrendBuckets ==
    out.kind = "trends" =>
        LET trends == out.body.trends
        IN /\ Len(trends) = 7
           /\ \A n \in 1..7 :
                /\ trends[n].date = today - 7 + n
                /\ \A k \in CounterKeys :
                      trends[n][k] = SumOver(Covering(trends[n].date), k)

\* a report with records spans three days of the window and adds all of
\* its counters to each of the three buckets and to no other, and a report
\* with records lies outside the window
C15_Witness ==
    /\ out.kind = "trends"
    /\ Len(reps) = 2
    /\ reps[1].summary.total_records = 2
    /\ reps[2].summary.total_records = 1
    /\ {n \in 1..WindowDays : 1 \in Covering(WindowDate(n))}
          = {n \in 1..WindowDays : WindowDate(n) \in 8..10}
    /\ \A n \in 1..WindowDays : 2 \notin Covering(WindowDate(n))
    /\ \A n \in 1..WindowDays :
          out.body.trends[n].total_records
              = IF WindowDate(n) \in 8..10 THEN 2 ELSE 0

\* the reports of a domain
OfDomain(domain) == {i \in DOMAIN reps : reps[i].domain = domain}

\* the sum of a counter over the groups
RECURSIVE SumGroups(_, _)
SumGroups(groups, key) ==
    IF groups = <<>> THEN 0
    ELSE Head(groups)[key] + SumGroups(Tail(groups), key)

\* C16: there is exactly one group per distinct domain of the reports; its
\* total_reports is the number of the reports of the domain and each of
\* its seven counters is the sum over those reports; the sum of a counter
\* over the groups is the counter of the total.
C16_GroupsPerDomain ==
    out.kind = "domains" =>
        LET groups == out.body
        IN /\ {groups[i].domain : i \in DOMAIN groups}
                = {reps[j].domain : j \in DOMAIN reps}
           /\ \A i, j \in DOMAIN groups :
                groups[i].domain = groups[j].domain => i = j
           /\ \A i \in DOMAIN groups :
                /\ groups[i].total_reports
                     = Cardinality(OfDomain(groups[i].domain))
                /\ \A k \in DomainKeys :
                     groups[i][k] = SumOver(OfDomain(groups[i].domain), k)
           /\ \A k \in DomainKeys :
                SumGroups(groups, k) = get_summary(reps)[k]

\* two reports with records of two domains give two groups
C16_Witness ==
    /\ out.kind = "domains"
    /\ Len(out.body) = 2
    /\ Len(reps) = 2
    /\ \A i \in 1..2 :
          /\ out.body[i].total_reports = 1
          /\ out.body[i].total_records > 0

(***************************************************************************)
(* Properties of the .zip branch of extract_archive.                       *)
(***************************************************************************)
\* the members of the archive a call of extract_archive was given
CalledMembers ==
    IF fs[call'.bucket][call'.name].data.t = "zip"
    THEN ZipMembers(fs[call'.bucket][call'.name].data.d)
    ELSE <<>>

\* the names a call returned
Returned(files) == {files[i] : i \in 1..Len(files)}

\* C21: after extract_archive on a .zip, the intermediate .gz of a member
\* whose decoding returned its document is gone, and the intermediate .gz
\* of a member whose decoding failed (no document returned for it) is still
\* in the directory.
C21_IntermediateGzRemovedOnSuccessOnly ==
    [][(Called /\ Suffix(call'.name) = "zip")
       => \A i \in 1..Len(CalledMembers) :
             Suffix(CalledMembers[i].file) = "gz"
             => (fs'[call'.bucket][CalledMembers[i].file].exists
                   <=> GzDestination(CalledMembers[i].file)
                          \notin Returned(ret'))]_vars

(***************************************************************************)
(* Properties of the skip test of extract_archives_in_directory.           *)
(***************************************************************************)
\* a step of the sweep that counted an archive with the given suffix; the
\* archive is xa'.file, its bucket Buckets[xa.bucket]
SweepCounted(suffix) ==
    /\ xa.pc = "files"
    /\ xa'.stats.total_files = xa.stats.total_files + 1
    /\ Suffix(xa'.file) = suffix

SweepSkipped ==
    /\ xa'.stats.skipped = xa.stats.skipped + 1
    /\ xa'.stats.extracted = xa.stats.extracted
    /\ xa'.stats.failed = xa.stats.failed
    /\ fs' = fs

\* the document newer(dir, x, n): x exists in dir and was modified strictly
\* after the archive n
NewerDocument(dir, x, n) ==
    /\ x \in Names
    /\ dir[x].exists
    /\ dir[x].mtime > dir[n].mtime

\* C22: with skip_existing, a .gz archive is skipped (counted as skipped,
\* extract_archive not called) exactly when the document extract_archive
\* would produce for it exists in the bucket with a strictly later
\* modification time, for r.xml.gz as for s.gz.
C22_GzSkippedWhenDocumentNewer ==
    [][(SweepCounted("gz") /\ xa.skip_existing)
       => (SweepSkipped
             <=> NewerDocument(fs[Buckets[xa.bucket]],
                               GzDestination(xa'.file), xa'.file))]_vars

\* the documents the members of the .zip archive n of dir decode to
ZipDocuments(dir, n) ==
    IF ~dir[n].exists \/ dir[n].data.t # "zip" THEN {}
    ELSE LET members == ZipMembers(dir[n].data.d) IN
         {IF Suffix(members[i].file) = "gz"
          THEN GzDestination(members[i].file) ELSE members[i].file :
             i \in {j \in 1..Len(members) :
                       Suffix(members[j].file) \in {"xml", "gz"}}}

\* a document of dir that this pass of the sweep decoded from an archive
DecodedInPass(b) ==
    \E x \in Names :
        /\ Suffix(x) = "xml"
        /\ fs[b][x].exists
        /\ fs[b][x].data.t = "doc"
        /\ fs[b][x] # xa.start[b][x]

\* C23: with skip_existing, a .zip archive is skipped exactly when some
\* .xml file of its bucket has a strictly later modification time; so a
\* .zip met after another archive of the bucket was decoded in the same
\* pass is skipped, and the rest of the pass leaves the documents of the
\* zip as they were (absent, when it was never extracted).
C23_ZipSkippedWhenAnyDocumentNewer ==
    /\ [][(SweepCounted("zip") /\ xa.skip_existing)
          => (SweepSkipped
                <=> \E x \in Names :
                       /\ Suffix(x) = "xml"
                       /\ NewerDocument(fs[Buckets[xa.bucket]], x,
                                        xa'.file))]_vars
    /\ [][(/\ SweepCounted("zip")
           /\ xa.skip_existing
           /\ DecodedInPass(Buckets[xa.bucket]))
          => SweepSkipped]_vars
    /\ [][(xa.pc = "files" /\ Suffix(xa'.file) # "zip")
          => \A b \in BucketSet : \A d \in ZipDocuments(fs[b], AZip) :
                fs'[b][d] = fs[b][d]]_vars

\* C23 witness: a pass that began with s.gz and a.zip (member m.xml) in the
\* first bucket and no document has returned: s.gz was decoded, a.zip was
\* skipped, and m.xml is absent.
C23_Witness ==
    /\ xa.pc = "done"
    /\ xa.stats.skipped = 1
    /\ xa.stats.extracted = 1
    /\ xa.start[Buckets[1]][AZip].data = ZipFile("z1")
    /\ ~xa.start[Buckets[1]][SXml].exists
    /\ fs[Buckets[1]][SXml].exists
    /\ fs[Buckets[1]][SXml].mtime > fs[Buckets[1]][AZip].mtime
    /\ ~fs[Buckets[1]][MXml].exists

\* the members of the called archive that share their flattened name with
\* an earlier member: <<i, j>> with i the first and j the last of the name
SameNameMembers ==
    {p \in (1..Len(CalledMembers)) \X (1..Len(CalledMembers)) :
        /\ p[1] < p[2]
        /\ CalledMembers[p[1]].file = CalledMembers[p[2]].file
        /\ \A k \in 1..Len(CalledMembers) :
              CalledMembers[k].file = CalledMembers[p[1]].file
              => (p[1] <= k /\ k <= p[2])}

\* the bytes a .gz member leaves in its document when the document was not
\* there: the decoded bytes, or none when the read failed
DecodedBytes(data) == IF data.t = "gz" THEN Gunzip(data) ELSE NoBytes

\* C24 as stated: of two members of a .zip with the same flattened name the
\* later wins, for .xml members and for .gz members decoded to one name.
C24_LaterMemberWins ==
    [][(Called /\ Suffix(call'.name) = "zip")
       => \A p \in SameNameMembers :
            LET later == CalledMembers[p[2]] IN
            IF Suffix(later.file) = "xml"
            THEN fs'[call'.bucket][later.file].data = later.data
            ELSE fs'[call'.bucket][GzDestination(later.file)].data
                    = DecodedBytes(later.data)]_vars

\* C24, amended: the later member wins when the members are .xml files;
\* when they are .gz members the later one does not replace the document,
\* which stays as it was before the later member was reached: the document
\* that was there before the call, else what the first member left.
C24_LaterXmlWinsFirstGzStays ==
    [][(Called /\ Suffix(call'.name) = "zip")
       => \A p \in SameNameMembers :
            LET first == CalledMembers[p[1]]
                later == CalledMembers[p[2]]
                dest == GzDestination(later.file)
            IN
            IF Suffix(later.file) = "xml"
            THEN fs'[call'.bucket][later.file] = FileOf(later.data, clock)
            ELSE IF fs[call'.bucket][dest].exists
            THEN fs'[call'.bucket][dest] = fs[call'.bucket][dest]
            ELSE fs'[call'.bucket][dest]
                    = FileOf(DecodedBytes(first.data), clock)]_vars

\* C24 witness: a.zip with the members sub/t.xml.gz (good1) and t.xml.gz
\* (good2) was extracted into a bucket without t.xml: t.xml holds good1.
C24_Witness ==
    /\ call = [bucket |-> Buckets[1], name |-> AZip]
    /\ fs[Buckets[1]][AZip].data = ZipFile("z5")
    /\ ret = <<TXmlGz, TXml, TXmlGz, TXml>>
    /\ fs[Buckets[1]][TXml] = FileOf(XmlText("good1"), 2)

(***************************************************************************)
(* Properties of the decoding of report_metadata.                          *)
(***************************************************************************)
\* the integers the date texts of the inputs stand for, and the default
DateValues ==
    {0} \cup {IntOf(t) : t \in {x \in DateTexts \cup EndTexts :
                                   x \notin {Absent, NoText}
                                   /\ IntError(x) = None}}

\* C25: the decoding of report_metadata gives date_range_begin and
\* date_range_end an integer, 0 without a usable text, whatever the texts
\* are: it sets no error and goes on to policy_published and the records.
C25_DatesDefaultToZero ==
    [][pc = "metadata"
       => (/\ pc' = "policy"
           /\ exc' = None
           /\ result'.error = None
           /\ result'.report_metadata.present
              => (/\ result'.report_metadata.date_range_begin \in DateValues
                  /\ result'.report_metadata.date_range_end \in DateValues))
      ]_vars

(***************************************************************************)
(* Properties of the scan of move_dmarc_emails over a mail store that      *)
(* answers every command as the state of the folders demands.              *)
(***************************************************************************)
\* the messages of a folder the classifier accepts
ReportsIn(folder) == {i \in DOMAIN folder : has_dmarc(folder[i])}

\* C26: in a move without dry_run and limit, over a mail store without
\* errors of its own, every message examined is the one the search
\* identified (the entry of stats.emails for id i is the message that was
\* the i-th at the search), no fetch fails and the circuit breaker stays
\* closed, and at the return no message the classifier accepts is left in
\* the source folder.
C26_EveryReportMoved ==
    /\ \A i \in DOMAIN mv.stats.emails :
          mv.stats.emails[i].id = mv.stats.emails[i].subject
    /\ ~mv.signalled
    /\ mv.stats.failed = 0
    /\ mv.pc = "done" => ReportsIn(source) = {}

(***************************************************************************)
(* Properties of move_email.                                               *)
(***************************************************************************)
\* the messages of a folder, and those of them flagged \Deleted
Uids(folder) == {folder[i].uid : i \in DOMAIN folder}
DeletedIn(folder) == {folder[i].uid : i \in {j \in DOMAIN folder : folder[j].deleted}}

\* the step counted a message the classifier accepted, outside a dry run:
\* it called move_email
MoveTried ==
    /\ mv.pc = "loop"
    /\ ~mv.dry_run
    /\ mv'.stats.dmarc_found = mv.stats.dmarc_found + 1

\* C27: move_email flags a message \Deleted and expunges the source folder
\* only after the copy of that message returned OK: a message that a step
\* flagged or removed from the source folder is in the target folder, no
\* message of either folder is in neither afterwards, a move that did not
\* touch the source folder is counted as failed (move_email returned False,
\* it did not raise) and changed nothing but for the copy, and a move
\* counted as moved has copied the message.
C27_DeletedOnlyAfterCopy ==
    [][MoveTried
       => (/\ (Uids(source) \ Uids(source')) \subseteq Uids(target')
           /\ (DeletedIn(source') \ DeletedIn(source)) \subseteq Uids(target')
           /\ (Uids(source) \cup Uids(target))
                 \subseteq (Uids(source') \cup Uids(target'))
           /\ mv'.pc \in {"loop", "done"}
           /\ source' = source
                 => (/\ mv'.stats.failed = mv.stats.failed + 1
                     /\ mv'.stats.moved = mv.stats.moved
                     /\ \E i \in DOMAIN source :
                           target' \in {target, Append(target, source[i])})
           /\ mv'.stats.moved = mv.stats.moved + 1
                 => (/\ mv'.stats.failed = mv.stats.failed
                     /\ Len(target') = Len(target) + 1))
      ]_vars

\* C27 witness: the one report of the folder was found, its move failed
\* before the copy: it is counted as failed, it is in the source folder,
\* unflagged, and the target folder is empty.
C27_Witness ==
    /\ mv.stats.dmarc_found = 1
    /\ mv.stats.failed = 1
    /\ mv.stats.moved = 0
    /\ ~mv.dry_run
    /\ target = <<>>
    /\ Len(mv.stats.emails) = 1
    /\ \E i \in DOMAIN source :
          /\ source[i].uid = mv.stats.emails[1].subject
          /\ ~source[i].deleted

(***************************************************************************)
(* Properties of a failed decompression.                                   *)
(***************************************************************************)
\* the called .gz archive does not decode and has no document yet
Undecodable ==
    /\ Called
    /\ Suffix(call'.name) = "gz"
    /\ fs[call'.bucket][call'.name].data.t # "gz"
    /\ ~fs[call'.bucket][GzDestination(call'.name)].exists

\* C28: a call of extract_archive on a .gz whose decompression fails
\* returns the empty list and leaves no destination document, and so does
\* every later call on it: the decompression is attempted again and the
\* path of an empty document is never returned.
C28_FailedGzLeavesNoDocument ==
    /\ [][Undecodable
          => (/\ ret' = <<>>
              /\ ~fs'[call'.bucket][GzDestination(call'.name)].exists)]_vars
    /\ [][(/\ Called
           /\ Suffix(call'.name) = "gz"
           /\ fs[call'.bucket][call'.name].data.t # "gz"
           /\ call = call'
           /\ ret = <<>>)
          => ret' = <<>>]_vars

(***************************************************************************)
(* Properties of the counters of save_attachments_by_date.                 *)
(***************************************************************************)
\* C29: when save_attachments_by_date returns after its loop over the
\* messages, total_attachments = total_saved + total_skipped + total_failed
\* and files has total_saved entries, whatever mixture of saves, skips,
\* write errors and per-message errors the loop met.
C29_AttachmentsAccounted ==
    (sv.pc = "done" /\ "total_skipped" \in DOMAIN sv.stats) =>
        /\ sv.stats.total_attachments
              = sv.stats.total_saved + sv.stats.total_skipped
                  + sv.stats.total_failed
        /\ Len(sv.stats.files) = sv.stats.total_saved

(***************************************************************************)
(* Properties of the dmarc and disposition tallies.                        *)
(***************************************************************************)
\* the dmarc tallies are the disposition tallies
DispositionComplete(res) ==
    /\ res.summary.dmarc_pass = res.summary.disposition_pass
    /\ res.summary.dmarc_fail = res.summary.disposition_fail

\* C30: at every point of parse_dmarc_xml, and so in the report returned,
\* dmarc_pass + dmarc_fail is the sum of the counts of the decoded records
\* with a row element, disposition_pass <= dmarc_pass and disposition_fail
\* <= dmarc_fail, and as long as every record with a row carries a
\* disposition element the dmarc tallies equal the disposition tallies.
C30_DmarcTalliesCoverEveryRow ==
    /\ [](/\ result.summary.dmarc_pass + result.summary.dmarc_fail
               = CountSum(SelectSeq(result.records, LAMBDA d : d.row))
          /\ result.summary.disposition_pass <= result.summary.dmarc_pass
          /\ result.summary.disposition_fail <= result.summary.dmarc_fail
          /\ result.records = <<>> => DispositionComplete(result))
    /\ [][(/\ Tallied
           /\ ~last'.row \/ last'.disposition # Absent
           /\ DispositionComplete(result))
          => DispositionComplete(result')]_vars

\* C30 witness: the report returned has two records with a row, a count of
\* 3 and a disposition, one "none" and one not: both tallies are 3 and 3.
C30_Witness ==
    /\ pc = "returned"
    /\ result.error = None
    /\ Len(result.records) = 2
    /\ \A i \in 1..2 : result.records[i].row /\ result.records[i].count = 3
    /\ result.summary.disposition_pass = 3
    /\ result.summary.disposition_fail = 3
    /\ result.summary.dmarc_pass = 3
    /\ result.summary.dmarc_fail = 3

TreeIdle == fs = [b \in BucketSet |-> EmptyDir] /\ clock = 1

RestIdle == SweepIdle /\ ClassIdle /\ DashIdle

OtherIdle == SaveIdle /\ WebIdle /\ MoveIdle /\ RestIdle

Init == ParseInit /\ TreeIdle /\ ExtractIdle /\ BatchIdle /\ OtherIdle

Next ==
    \/ ParseOpen
    \/ ParseMetadata
    \/ ParsePolicy
    \/ ParseRecord
    \/ ParseExcept
    \/ ParseReturn

Spec == Init /\ [][Next]_vars

InitExtract ==
    /\ ParseInit /\ ExtractIdle /\ BatchIdle /\ OtherIdle
    /\ TreeInit
    /\ fs[Buckets[2]] = EmptyDir

NextExtract == Extract \/ Tick

SpecExtract == InitExtract /\ [][NextExtract]_vars

\* calls of extract_archive on archives with members of one name
ZipTrees ==
    {[b \in BucketSet |->
        IF b # Buckets[1] THEN EmptyDir
        ELSE [n \in Names |->
                CASE n = AZip -> FileOf(ZipFile(z), 0)
                  [] n = MXml -> f1
                  [] n = TXml -> f2
                  [] n = SGz -> f3
                  [] OTHER -> NoFile]] :
        z \in {"z1", "z2", "z3", "z4", "z5", "z6"},
        f1 \in {NoFile, FileOf(XmlText("faulty"), 0)},
        f2 \in {NoFile, FileOf(XmlText("faulty"), 0)},
        f3 \in Options(SGz)}

InitZip ==
    /\ ParseInit /\ ExtractIdle /\ BatchIdle /\ OtherIdle
    /\ fs \in ZipTrees
    /\ clock = 1

SpecZip == InitZip /\ [][NextExtract]_vars

InitBatch == ParseInit /\ TreeInit /\ ExtractIdle /\ BatchIdle /\ OtherIdle

NextBatch ==
    \/ QStart(1)
    \/ QAgain(1)
    \/ QBucket(1)
    \/ QFile(1)
    \/ QGzWrite(1)
    \/ QParse(1)

SpecBatch == InitBatch /\ [][NextBatch]_vars

\* the sound bytes of a name: a document that parses, an archive of such
SoundChoices(name) ==
    CASE name = RXmlGz -> {GzipOf("good1")}
      [] name = RXml -> {XmlText("good1")}
      [] name = SGz -> {GzipOf("good2")}
      [] name = AZip -> {ZipFile("z1"), ZipFile("z2")}
      [] OTHER -> Choices(name)

SoundTree(tree) ==
    \A b \in BucketSet, n \in Names :
        tree[b][n].exists => tree[b][n].data \in SoundChoices(n)

\* one query run alone
InitAlone ==
    /\ ParseInit /\ ExtractIdle /\ BatchIdle /\ OtherIdle
    /\ TreeInit
    /\ SoundTree(fs)
    /\ fs[Buckets[2]] = EmptyDir

NextAlone == QStart(1) \/ QBucket(1) \/ QFile(1) \/ QGzWrite(1) \/ QParse(1)

SpecAlone == InitAlone /\ [][NextAlone]_vars

\* two requests of the dashboard served at once
InitConcurrent ==
    /\ ParseInit /\ ExtractIdle /\ OtherIdle
    /\ TreeInit
    /\ SoundTree(fs)
    /\ fs[Buckets[2]] = EmptyDir
    /\ Cardinality(FilesOf(fs[Buckets[1]])) <= MaxSharedFiles
    /\ q = [p \in {1, 2} |-> IdleRun]

NextConcurrent ==
    \/ \E p \in DOMAIN q : QStart(p)
    \/ \E p \in DOMAIN q : QBucket(p)
    \/ \E p \in DOMAIN q : QFile(p)
    \/ \E p \in DOMAIN q : QGzWrite(p)
    \/ \E p \in DOMAIN q : QParse(p)

SpecConcurrent == InitConcurrent /\ [][NextConcurrent]_vars

\* the saves of attachments
InitSave ==
    /\ ParseInit /\ TreeIdle /\ ExtractIdle /\ BatchIdle /\ RestIdle
    /\ SaveIdle /\ WebIdle /\ MoveIdle

NextSave == SaveBegin \/ SaveEmail \/ SaveReturn \/ WallTick

SpecSave == InitSave /\ [][NextSave]_vars

\* one call of save_attachments_by_date for an empty output directory
SaveFirst == sv.pc = "idle" /\ SaveBegin

NextSaveCall == SaveFirst \/ SaveEmail \/ SaveReturn \/ WallTick

SpecSaveCall == InitSave /\ [][NextSaveCall]_vars

\* the requests of raw documents
InitWeb ==
    /\ ParseInit /\ TreeIdle /\ ExtractIdle /\ BatchIdle /\ RestIdle
    /\ SaveIdle /\ MoveIdle
    /\ site \in Sites
    /\ req = <<>>
    /\ resp = Answer(0, None)

NextWeb == GetXml

SpecWeb == InitWeb /\ [][NextWeb]_vars

\* the scan of the source folder
InitMove ==
    /\ ParseInit /\ TreeIdle /\ ExtractIdle /\ BatchIdle /\ RestIdle
    /\ SaveIdle /\ WebIdle
    /\ source \in {FolderOf(reports) : reports \in Folders}
    /\ target = <<>>
    /\ mv = [pc |-> "idle", ids |-> <<>>, stats |-> ZeroStats,
             dry_run |-> FALSE, signalled |-> FALSE]

NextMove == MoveBegin \/ MoveIteration \/ MoveReturn

SpecMove == InitMove /\ [][NextMove]_vars

\* the scan over a mail store without errors of its own: a command on a
\* message of the folder is answered OK, a fetch of a number the folder no
\* longer has is refused or raises
QuietStep ==
    \E fetch \in FetchOutcomes :
        /\ mv.pc = "loop" /\ mv.ids # <<>>
        /\ fetch = "OK" <=> Head(mv.ids) \in DOMAIN source
        /\ MoveStep(fetch, [at |-> "none", how |-> "OK"])

NextMoveQuiet == MoveCall(FALSE, 0, "OK") \/ QuietStep \/ MoveReturn

\* the target folder is empty or holds a report an earlier call moved
InitMoveQuiet ==
    /\ ParseInit /\ TreeIdle /\ ExtractIdle /\ BatchIdle /\ RestIdle
    /\ SaveIdle /\ WebIdle
    /\ source \in {FolderOf(reports) : reports \in Folders}
    /\ target \in {<<>>, <<Message(0, TRUE)>>}
    /\ mv = [pc |-> "idle", ids |-> <<>>, stats |-> ZeroStats,
             dry_run |-> FALSE, signalled |-> FALSE]

SpecMoveQuiet == InitMoveQuiet /\ [][NextMoveQuiet]_vars

\* the extraction pass over the tree
InitSweep ==
    /\ ParseInit /\ ExtractIdle /\ BatchIdle
    /\ SaveIdle /\ WebIdle /\ MoveIdle /\ RestIdle
    /\ TreeInit

NextSweep == XStart \/ XAgain \/ XBucket \/ XFile \/ Tick

SpecSweep == InitSweep /\ [][NextSweep]_vars

\* one pass over the tree
SweepFirst == xa.pc = "idle" /\ SweepBegin

NextSweepPass == SweepFirst \/ XBucket \/ XFile \/ Tick

SpecSweepPass == InitSweep /\ [][NextSweepPass]_vars

\* the classification of one message
InitClass ==
    /\ ParseInit /\ TreeIdle /\ ExtractIdle /\ BatchIdle
    /\ SaveIdle /\ WebIdle /\ MoveIdle /\ SweepIdle /\ DashIdle
    /\ ClassInit

NextClass == Classify

SpecClass == InitClass /\ [][NextClass]_vars

\* one request to an aggregation endpoint of the dashboard
InitDash ==
    /\ ParseInit /\ TreeIdle /\ ExtractIdle /\ BatchIdle
    /\ SaveIdle /\ WebIdle /\ MoveIdle /\ SweepIdle /\ ClassIdle
    /\ DashInit

NextDash == GetSummary \/ GetDomains \/ GetTrends

SpecDash == InitDash /\ [][NextDash]_vars

====
